---- MODULE Spec2Model ----
(***************************************************************************)
(* convertfast: the RTF plain-text extractor parseRtf of js/doc-engine.js, *)
(* modelled as a state machine with one action per branch of its scanning  *)
(* loop.  A JavaScript string is a sequence of UTF-16 code units, so a     *)
(* string is modelled as a sequence of numbers in 0..65535 and a character *)
(* as its code unit.  The cursor i is 0-based as in the source.            *)
(***************************************************************************)
EXTENDS Integers, Sequences, FiniteSets, TLC

VARIABLES
    rtfString,   \* the argument of parseRtf
    text,        \* the scan buffer
    depth,       \* brace nesting counter
    skipGroup,   \* 0, or the depth at which skipping started
    i,           \* cursor, 0-based
    pc,          \* "scan" inside the while loop, "done" after the return
    result,      \* the returned string (<<>> until pc = "done")
    pass,        \* 1 for the call on the input, 2 for a call on the first call's result
    hist,        \* history variable: the scanner's states at the start of the loop
                 \* iterations so far; no step reads it
    other,       \* the locals of a second invocation of parseRtf, held while the
                 \* first one runs (pc = "none" when there is no second invocation)
    \* one conversion call of js/doc-engine.js (rtfToText, rtfToPdf, epubToPdf, docxToPdf)
    fn,          \* the exported function that was called ("none": no call)
    at,          \* where the call stands: the await it is suspended at, or the
                 \* synchronous stretch it is in
    reported,    \* the values passed to onProgress so far, in order
    items,       \* orderedFiles / paragraphs: one flag per element, TRUE when the
                 \* element's data is found (always TRUE for paragraphs)
    item,        \* the loop index over items (the source's i)
    \* the batch queue of js/ui.js
    fileQueue,   \* the entries in the list, in order (an entry is named by a number)
    status,      \* entry.status of every entry ("none": the entry does not exist yet)
    activeCount, \* the module-level counter of conversions under way
    pending,     \* the entries whose processFile call has not settled: one suspended
                 \* invocation of processQueue each
    timers,      \* the number of setTimeout(processQueue, 0) callbacks not yet run
    trail,       \* history variable: the values assigned to entry.status, in order
    \* the metadata page of js/exif-ui.js
    currentFile,     \* the loaded file (NoFile for null)
    currentMetadata, \* the metadata read (NoMetadata for null)
    isJpegFile,
    processing,
    reads,       \* the suspended invocations of handleFile: the file each one reads
                 \* and the await it is at
    ops,         \* the suspended invocations of handleSave / handleStripGps /
                 \* handleStripAll: the handler and the file its engine call was given
    exifFile,    \* the file the #exif-file element was built for (NoFile: no element)
    panel,       \* the metadata panel: "empty", "readonly" or "editable"
    buttons,     \* the buttons that are displayed
    disabled,    \* the buttons that are disabled
    download,    \* what showResult put in the #exif-file element: the file the blob
                 \* was computed from and currentFile at that moment
    \* the HEIC loader (unnamed/part_001, js/heic-worker.js)
    build,       \* which of the two versions of the loader the page runs: "cdn"
                 \* (CDN first, local fallback) or "local" (local copy only)
    heicToFn,    \* "null", or window.HeicTo as read after loading
    loadPromise, \* 0 for null, or the number of the promise it holds
    promises,    \* the state of every promise loadHeicTo has created
    scripts,     \* the script elements appended, in order: source, the promise
                 \* they were started for, and state ("loading", "failed", "loaded",
                 \* or "empty": loaded without defining the decoder)
    HeicTo,      \* whether window.HeicTo is defined
    heicCalls,   \* history variable: the calls of loadHeicTo, in order
    \* the jsPDF loader of js/doc-engine.js
    jspdfLoaded, \* "null", or window.jspdf as read after loading
    jspdf,       \* whether window.jspdf is defined
    pdfScripts,  \* the state of the script element of every loadScript(JSPDF_CDN)
    pdfCalls     \* history variable: the calls of getJsPDF, in order

(* The state of one conversion call. *)
docVars == <<fn, at, reported, items, item>>

(* The state of the batch queue. *)
queueVars == <<fileQueue, status, activeCount, pending, timers, trail>>

(* The state of the metadata page. *)
exifVars ==
    <<currentFile, currentMetadata, isJpegFile, processing, reads, ops, exifFile,
      panel, buttons, disabled, download>>

(* The state of the HEIC loader. *)
heicVars == <<build, heicToFn, loadPromise, promises, scripts, HeicTo, heicCalls>>

(* The state of the jsPDF loader. *)
pdfVars == <<jspdfLoaded, jspdf, pdfScripts, pdfCalls>>

(* The state outside parseRtf. *)
rest == <<docVars, queueVars, exifVars, heicVars, pdfVars>>

(* The state of one invocation of parseRtf and of the invocation that waits. *)
scanVars == <<rtfString, text, depth, skipGroup, i, pc, result, pass, hist, other>>

vars == <<scanVars, rest>>

(* No conversion call is open. *)
DocIdle ==
    /\ fn = "none"
    /\ at = "none"
    /\ reported = <<>>
    /\ items = <<>>
    /\ item = 0

MaxFiles == 3

(* The entries that can be created. *)
Entries == 1..MaxFiles

(* Nothing was dropped on the page. *)
QueueIdle ==
    /\ fileQueue = <<>>
    /\ status = [e \in Entries |-> "none"]
    /\ activeCount = 0
    /\ pending = {}
    /\ timers = 0
    /\ trail = [e \in Entries |-> <<>>]

NoFile == "null"
NoMetadata == [of |-> "null"]
NoResult == [blob |-> "null", file |-> "null"]

(* The metadata page after init(): no file, all buttons hidden. *)
ExifIdle ==
    /\ currentFile = NoFile
    /\ currentMetadata = NoMetadata
    /\ isJpegFile = FALSE
    /\ processing = FALSE
    /\ reads = <<>>
    /\ ops = <<>>
    /\ exifFile = NoFile
    /\ panel = "empty"
    /\ buttons = {}
    /\ disabled = {}
    /\ download = NoResult

MaxCalls == 3

(* The promises loadHeicTo can create: one per call at most. *)
Promises == 1..MaxCalls

(* The HEIC loader of the version b, before the first call. *)
HeicStart(b) ==
    /\ build = b
    /\ heicToFn = "null"
    /\ loadPromise = 0
    /\ promises = [n \in Promises |-> "none"]
    /\ scripts = <<>>
    /\ HeicTo = FALSE
    /\ heicCalls = <<>>

HeicIdle == HeicStart("cdn")

(* The jsPDF loader before the first call. *)
PdfIdle ==
    /\ jspdfLoaded = "null"
    /\ jspdf = FALSE
    /\ pdfScripts = <<>>
    /\ pdfCalls = <<>>

(* parseRtf is called directly: nothing else of the page is running. *)
Idle == DocIdle /\ QueueIdle /\ ExifIdle /\ HeicIdle /\ PdfIdle

(* The state a conversion call, the batch queue, the metadata page and the *)
(* two loaders do not touch.                                               *)
docRest == <<queueVars, exifVars, heicVars, pdfVars>>
queueRest == <<scanVars, docVars, exifVars, heicVars, pdfVars>>
exifRest == <<scanVars, docVars, queueVars, heicVars, pdfVars>>
heicRest == <<scanVars, docVars, queueVars, exifVars, pdfVars>>
pdfRest == <<scanVars, docVars, queueVars, exifVars, heicVars>>

----------------------------------------------------------------------------
(* Characters (UTF-16 code units) the source names. *)

LBRACE == 123
RBRACE == 125
BACKSLASH == 92
TILDE == 126
HYPHEN == 45
UNDERSCORE == 95
APOSTROPHE == 39
SPACE == 32
CR == 13
LF == 10
TAB == 9
STAR == 42
NBSP == 160
SHY == 173
NBHYPHEN == 8209
LQUOTE == 8216
RQUOTE == 8217
LDBLQUOTE == 8220
RDBLQUOTE == 8221
BULLET == 8226
ENDASH == 8211
EMDASH == 8212
CODEUNITS == 65536

(* Keywords, spelled as code units. *)
W_par == <<112, 97, 114>>
W_line == <<108, 105, 110, 101>>
W_tab == <<116, 97, 98>>
W_u == <<117>>
W_lquote == <<108, 113, 117, 111, 116, 101>>
W_rquote == <<114, 113, 117, 111, 116, 101>>
W_ldblquote == <<108, 100, 98, 108, 113, 117, 111, 116, 101>>
W_rdblquote == <<114, 100, 98, 108, 113, 117, 111, 116, 101>>
W_bullet == <<98, 117, 108, 108, 101, 116>>
W_endash == <<101, 110, 100, 97, 115, 104>>
W_emdash == <<101, 109, 100, 97, 115, 104>>
W_fonttbl == <<102, 111, 110, 116, 116, 98, 108>>
W_colortbl == <<99, 111, 108, 111, 114, 116, 98, 108>>
W_stylesheet == <<115, 116, 121, 108, 101, 115, 104, 101, 101, 116>>
W_info == <<105, 110, 102, 111>>
W_header == <<104, 101, 97, 100, 101, 114>>
W_footer == <<102, 111, 111, 116, 101, 114>>
W_pict == <<112, 105, 99, 116>>
W_object == <<111, 98, 106, 101, 99, 116>>
W_fldinst == <<102, 108, 100, 105, 110, 115, 116>>

(* const skipGroups = [...] *)
skipGroups ==
    { W_fonttbl, W_colortbl, W_stylesheet, W_info, W_header, W_footer,
      W_header \o <<108>>, W_header \o <<114>>, W_header \o <<102>>,
      W_footer \o <<108>>, W_footer \o <<114>>, W_footer \o <<102>>,
      W_pict, W_object, W_fldinst, <<STAR>> }

----------------------------------------------------------------------------
(* JavaScript string primitives. *)

Min(a, b) == IF a < b THEN a ELSE b

(* s[k] for an index inside the string; the guards below keep k in range   *)
(* wherever the source reads rtfString[k] under an i < len test.           *)
At(s, k) == s[k + 1]

(* s[k] === c, which is false when s[k] is undefined (k past the end). *)
CharIs(s, k, c) == k >= 0 /\ k < Len(s) /\ s[k + 1] = c

(* s.substring(a, b) for 0 <= a <= b: both ends are clamped to the length. *)
Substring(s, a, b) == SubSeq(s, Min(a, Len(s)) + 1, Min(b, Len(s)))

(* /[a-zA-Z]/.test(c) *)
IsLetter(c) == (c >= 65 /\ c <= 90) \/ (c >= 97 /\ c <= 122)

(* /[a-zA-Z*]/.test(c) *)
IsLetterOrStar(c) == IsLetter(c) \/ c = STAR

(* /[0-9]/.test(c) *)
IsDigit(c) == c >= 48 /\ c <= 57

(* String.fromCharCode(n): ToUint16(n). *)
(* Variant: the code is cut to a byte. *)
FromCharCodeByte(n) == n % 256

FromCharCode(n) == n % CODEUNITS

(* White space and line terminators, as String.prototype.trim and the      *)
(* leading-blank skipping of parseInt understand them.                     *)
WhiteSpace ==
    { 9, 10, 11, 12, 13, 32, 160, 5760, 8232, 8233, 8239, 8287, 12288, 65279 }
      \cup (8192..8202)

(* The value of c as a digit in the given radix, or -1 when it is none. *)
DigitValue(c, radix) ==
    LET v == IF IsDigit(c) THEN c - 48
             ELSE IF c >= 97 /\ c <= 122 THEN c - 87
             ELSE IF c >= 65 /\ c <= 90 THEN c - 55
             ELSE -1
    IN  IF v >= 0 /\ v < radix THEN v ELSE -1

RECURSIVE SkipBlanks(_)
SkipBlanks(s) ==
    IF s # <<>> /\ Head(s) \in WhiteSpace THEN SkipBlanks(Tail(s)) ELSE s

RECURSIVE DigitsValue(_, _, _, _)
(* The longest prefix of s made of digits of the radix, read as a number   *)
(* on top of acc; n counts the digits read.                                *)
DigitsValue(s, radix, acc, n) ==
    IF s # <<>> /\ DigitValue(Head(s), radix) >= 0
    THEN DigitsValue(Tail(s), radix, acc * radix + DigitValue(Head(s), radix), n + 1)
    ELSE [nan |-> (n = 0), val |-> acc]

(* parseInt(s, radix) for radix 10 or 16: leading blanks are skipped, one  *)
(* sign is read, for radix 16 a 0x/0X prefix is dropped, and the longest   *)
(* run of digits is the value; NaN when that run is empty.                 *)
ParseInt(s, radix) ==
    LET t == SkipBlanks(s)
        neg == t # <<>> /\ Head(t) = HYPHEN
        u == IF t # <<>> /\ Head(t) \in {HYPHEN, 43} THEN Tail(t) ELSE t
        v == IF radix = 16 /\ Len(u) >= 2 /\ u[1] = 48 /\ u[2] \in {88, 120}
             THEN Tail(Tail(u)) ELSE u
        r == DigitsValue(v, radix, 0, 0)
    IN  [nan |-> r.nan, val |-> IF neg THEN 0 - r.val ELSE r.val]

RECURSIVE CollapseFrom(_, _)
(* text.replace(/\n{3,}/g, '\n\n'), scanning from 1-based position k. *)
CollapseFrom(t, k) ==
    IF k > Len(t) THEN <<>>
    ELSE IF t[k] # LF THEN <<t[k]>> \o CollapseFrom(t, k + 1)
    ELSE LET e == CHOOSE j \in k..Len(t) :
                      /\ \A m \in k..j : t[m] = LF
                      /\ (j = Len(t) \/ t[j + 1] # LF)
             n == e - k + 1
         IN  (IF n >= 3 THEN <<LF, LF>> ELSE SubSeq(t, k, e)) \o CollapseFrom(t, e + 1)

Collapse(t) == CollapseFrom(t, 1)

(* Variant: only leading white space is removed (trimStart). *)
TrimStart(t) ==
    LET keep == { k \in 1..Len(t) : t[k] \notin WhiteSpace }
    IN  IF keep = {} THEN <<>>
        ELSE SubSeq(t, CHOOSE k \in keep : \A m \in keep : k <= m, Len(t))

(* String.prototype.trim *)
Trim(t) ==
    LET keep == { k \in 1..Len(t) : t[k] \notin WhiteSpace }
    IN  IF keep = {} THEN <<>>
        ELSE SubSeq(t, CHOOSE k \in keep : \A m \in keep : k <= m,
                       CHOOSE k \in keep : \A m \in keep : k >= m)

----------------------------------------------------------------------------
(* Pieces of the scanning loop. *)

RECURSIVE RunEnd(_, _, _)
(* while (j < len && test(s[j])) j++  -- the index where the run ends;     *)
(* star tells whether '*' belongs to the run.                              *)
RunEnd(s, j, star) ==
    IF j < Len(s) /\ (IF star THEN IsLetterOrStar(At(s, j)) ELSE IsLetter(At(s, j)))
    THEN RunEnd(s, j + 1, star)
    ELSE j

RECURSIVE DigitsEnd(_, _)
(* while (i < len && /[0-9]/.test(s[i])) i++ *)
DigitsEnd(s, j) ==
    IF j < Len(s) /\ IsDigit(At(s, j)) THEN DigitsEnd(s, j + 1) ELSE j

(* The word collected after '{' when s[k] is a backslash (k is the cursor  *)
(* after the brace).                                                       *)
GroupWord(s, k) == Substring(s, k + 1, RunEnd(s, k + 1, TRUE))

(* Variant: a discard keyword restarts the skip inside a skipped scope. *)
StartsSkipNested(s, k, sg) ==
    CharIs(s, k, BACKSLASH) /\ GroupWord(s, k) \in skipGroups

(* Whether the group opened just before cursor k starts a skip. *)
StartsSkip(s, k, sg) ==
    CharIs(s, k, BACKSLASH) /\ GroupWord(s, k) \in skipGroups /\ sg = 0

(* The characters that get a literal escape, and what each appends. *)
SpecialChars == {BACKSLASH, LBRACE, RBRACE, TILDE, HYPHEN, UNDERSCORE}

(* Variant: the three typographic escapes append the character itself. *)
SpecialTextVerbatim(c) == <<c>>

SpecialText(c) ==
    CASE c = BACKSLASH -> <<BACKSLASH>>
      [] c = LBRACE -> <<LBRACE>>
      [] c = RBRACE -> <<RBRACE>>
      [] c = TILDE -> <<NBSP>>
      [] c = HYPHEN -> <<SHY>>
      [] c = UNDERSCORE -> <<NBHYPHEN>>

(* Variant: only the first of the two characters is read. *)
HexTextOneDigit(s, k) ==
    LET code == ParseInt(Substring(s, k + 1, k + 2), 16)
    IN  IF ~code.nan THEN <<FromCharCode(code.val)>> ELSE <<>>

(* What the hex escape whose apostrophe is at k appends. *)
HexText(s, k) ==
    LET code == ParseInt(Substring(s, k + 1, k + 3), 16)
    IN  IF ~code.nan THEN <<FromCharCode(code.val)>> ELSE <<>>

(* The cursor after the optional numeric parameter starting at k. *)
ParamEnd(s, k) ==
    IF k < Len(s) /\ (At(s, k) = HYPHEN \/ IsDigit(At(s, k)))
    THEN DigitsEnd(s, IF At(s, k) = HYPHEN THEN k + 1 ELSE k)
    ELSE k

(* Variant: the space after a control word is not consumed. *)
SpaceEndKeep(s, k) == k

(* The cursor after the optional trailing space at k. *)
SpaceEnd(s, k) == IF k < Len(s) /\ At(s, k) = SPACE THEN k + 1 ELSE k

(* Variant: the keyword tab appends a space. *)
WordTextTabAsSpace(word, param) ==
    IF word = W_par \/ word = W_line THEN <<LF>>
    ELSE IF word = W_tab THEN <<SPACE>>
    ELSE IF word = W_u
         THEN LET code == ParseInt(param, 10)
              IN  IF ~code.nan
                  THEN <<FromCharCode(IF code.val < 0 THEN code.val + 65536 ELSE code.val)>>
                  ELSE <<>>
    ELSE IF word = W_lquote THEN <<LQUOTE>>
    ELSE IF word = W_rquote THEN <<RQUOTE>>
    ELSE IF word = W_ldblquote THEN <<LDBLQUOTE>>
    ELSE IF word = W_rdblquote THEN <<RDBLQUOTE>>
    ELSE IF word = W_bullet THEN <<BULLET>>
    ELSE IF word = W_endash THEN <<ENDASH>>
    ELSE IF word = W_emdash THEN <<EMDASH>>
    ELSE <<>>

(* What the control word appends. *)
WordText(word, param) ==
    IF word = W_par \/ word = W_line THEN <<LF>>
    ELSE IF word = W_tab THEN <<TAB>>
    ELSE IF word = W_u
         THEN LET code == ParseInt(param, 10)
              IN  IF ~code.nan
                  THEN <<FromCharCode(IF code.val < 0 THEN code.val + 65536 ELSE code.val)>>
                  ELSE <<>>
    ELSE IF word = W_lquote THEN <<LQUOTE>>
    ELSE IF word = W_rquote THEN <<RQUOTE>>
    ELSE IF word = W_ldblquote THEN <<LDBLQUOTE>>
    ELSE IF word = W_rdblquote THEN <<RDBLQUOTE>>
    ELSE IF word = W_bullet THEN <<BULLET>>
    ELSE IF word = W_endash THEN <<ENDASH>>
    ELSE IF word = W_emdash THEN <<EMDASH>>
    ELSE <<>>

(* Variant: the character after \uN is skipped whatever it is. *)
SkipsReplacementAlways(s, k) == k < Len(s)

(* Whether \u skips the replacement character at k. *)
SkipsReplacement(s, k) ==
    k < Len(s) /\ At(s, k) # BACKSLASH /\ At(s, k) # LBRACE /\ At(s, k) # RBRACE

(* Variant: the i++ after the backslash is undone when the control word is *)
(* empty, so the cursor is back on the backslash.                          *)
WordCursorStuck(s, k) ==
    LET w == RunEnd(s, k, FALSE)
        e == SpaceEnd(s, ParamEnd(s, w))
    IN  IF e = k THEN k - 1
        ELSE IF Substring(s, k, w) = W_u /\ SkipsReplacement(s, e) THEN e + 1 ELSE e

(* Variant: a backslash with no control word after it swallows the next    *)
(* character.                                                              *)
WordCursorEat(s, k) ==
    LET w == RunEnd(s, k, FALSE)
        e == SpaceEnd(s, ParamEnd(s, w))
    IN  IF e = k THEN k + 1
        ELSE IF Substring(s, k, w) = W_u /\ SkipsReplacement(s, e) THEN e + 1 ELSE e

(* The cursor after the control word whose first character is at k. *)
WordCursor(s, k) ==
    LET w == RunEnd(s, k, FALSE)
        e == SpaceEnd(s, ParamEnd(s, w))
    IN  IF Substring(s, k, w) = W_u /\ SkipsReplacement(s, e) THEN e + 1 ELSE e

(* Variant: blank lines are not collapsed. *)
CleanUpTrimOnly(t) == Trim(t)

(* The return statement: collapse blank lines, trim. *)
CleanUp(t) == Trim(Collapse(t))

----------------------------------------------------------------------------
(* The state machine. *)

len == Len(rtfString)
ch == At(rtfString, i)
InLoop == pc = "scan" /\ i < len

(* The scanner's state, as recorded in the history. *)
Snap == [i |-> i, depth |-> depth, skipGroup |-> skipGroup, text |-> text]
Log == hist' = hist \cup {Snap}

(* The locals of one invocation, the locals a fresh invocation on s starts *)
(* with, and the value of other when parseRtf is invoked once only.         *)
Frame ==
    [rtfString |-> rtfString, text |-> text, depth |-> depth, skipGroup |-> skipGroup,
     i |-> i, pc |-> pc, result |-> result, hist |-> hist]
StartOf(s) ==
    [rtfString |-> s, text |-> <<>>, depth |-> 0, skipGroup |-> 0,
     i |-> 0, pc |-> "scan", result |-> <<>>, hist |-> {}]
NoCall == [StartOf(<<>>) EXCEPT !.pc = "none"]

(* Variant: inside a skipped scope a '{' does not raise the depth. *)
OpenBraceFlat ==
    /\ InLoop /\ ch = LBRACE
    /\ depth' = IF skipGroup > 0 THEN depth ELSE depth + 1
    /\ i' = i + 1
    /\ skipGroup' = IF StartsSkip(rtfString, i + 1, skipGroup) THEN depth + 1 ELSE skipGroup
    /\ Log
    /\ UNCHANGED <<rtfString, text, pc, result, pass, other, rest>>

(* if (ch === '{') *)
OpenBrace ==
    /\ InLoop /\ ch = LBRACE
    /\ depth' = depth + 1
    /\ i' = i + 1
    /\ skipGroup' = IF StartsSkip(rtfString, i + 1, skipGroup) THEN depth + 1 ELSE skipGroup
    /\ Log
    /\ UNCHANGED <<rtfString, text, pc, result, pass, other, rest>>

(* Variant: the first closing brace ends the skip, whatever the depth. *)
CloseBraceFirst ==
    /\ InLoop /\ ch = RBRACE
    /\ skipGroup' = 0
    /\ depth' = depth - 1
    /\ i' = i + 1
    /\ Log
    /\ UNCHANGED <<rtfString, text, pc, result, pass, other, rest>>

(* if (ch === '}') *)
CloseBrace ==
    /\ InLoop /\ ch = RBRACE
    /\ skipGroup' = IF skipGroup > 0 /\ depth = skipGroup THEN 0 ELSE skipGroup
    /\ depth' = depth - 1
    /\ i' = i + 1
    /\ Log
    /\ UNCHANGED <<rtfString, text, pc, result, pass, other, rest>>

(* Variant: a skipped character is kept in the buffer. *)
SkipCharKeep ==
    /\ InLoop /\ ch \notin {LBRACE, RBRACE} /\ skipGroup > 0
    /\ text' = Append(text, ch)
    /\ i' = i + 1
    /\ Log
    /\ UNCHANGED <<rtfString, depth, skipGroup, pc, result, pass, other, rest>>

(* if (skipGroup > 0) *)
SkipChar ==
    /\ InLoop /\ ch \notin {LBRACE, RBRACE} /\ skipGroup > 0
    /\ i' = i + 1
    /\ Log
    /\ UNCHANGED <<rtfString, text, depth, skipGroup, pc, result, pass, other, rest>>

(* Variant: a backslash starts an escape inside a skipped scope too. *)
EscapingAlways == InLoop /\ ch = BACKSLASH

Escaping == InLoop /\ ch = BACKSLASH /\ ~(skipGroup > 0)

(* if (ch === '\\') { i++; if (i >= len) break; *)
EscapeAtEnd ==
    /\ Escaping /\ i + 1 >= len
    /\ i' = i + 1
    /\ Log
    /\ UNCHANGED <<rtfString, text, depth, skipGroup, pc, result, pass, other, rest>>

(* Special characters *)
EscapeSpecial ==
    /\ Escaping /\ i + 1 < len /\ At(rtfString, i + 1) \in SpecialChars
    /\ text' = text \o SpecialText(At(rtfString, i + 1))
    /\ i' = i + 2
    /\ Log
    /\ UNCHANGED <<rtfString, depth, skipGroup, pc, result, pass, other, rest>>

(* Variant: when the two characters do not parse, only the backslash and  *)
(* the apostrophe are consumed.                                            *)
EscapeHexShort ==
    /\ Escaping /\ i + 1 < len /\ At(rtfString, i + 1) = APOSTROPHE
    /\ text' = text \o HexText(rtfString, i + 1)
    /\ i' = IF HexText(rtfString, i + 1) = <<>> THEN i + 2 ELSE i + 4
    /\ Log
    /\ UNCHANGED <<rtfString, depth, skipGroup, pc, result, pass, other, rest>>

(* Hex escape \'xx *)
EscapeHex ==
    /\ Escaping /\ i + 1 < len /\ At(rtfString, i + 1) = APOSTROPHE
    /\ text' = text \o HexText(rtfString, i + 1)
    /\ i' = i + 4
    /\ Log
    /\ UNCHANGED <<rtfString, depth, skipGroup, pc, result, pass, other, rest>>

(* Control word *)
ControlWord ==
    /\ Escaping /\ i + 1 < len
    /\ At(rtfString, i + 1) \notin SpecialChars \cup {APOSTROPHE}
    /\ LET w == RunEnd(rtfString, i + 1, FALSE)
           p == ParamEnd(rtfString, w)
       IN  text' = text \o WordText(Substring(rtfString, i + 1, w), Substring(rtfString, w, p))
    /\ i' = WordCursor(rtfString, i + 1)
    /\ Log
    /\ UNCHANGED <<rtfString, depth, skipGroup, pc, result, pass, other, rest>>

(* Variant: text is copied inside a skipped scope too. *)
PlainAlways == InLoop /\ ch \notin {LBRACE, RBRACE, BACKSLASH}

Plain == InLoop /\ ch \notin {LBRACE, RBRACE, BACKSLASH} /\ ~(skipGroup > 0)

(* Variant: the line break is passed over without moving the cursor. *)
RawNewlineStay ==
    /\ Plain /\ ch \in {CR, LF}
    /\ i' = i
    /\ Log
    /\ UNCHANGED <<rtfString, text, depth, skipGroup, pc, result, pass, other, rest>>

(* Variant: a raw line break is read as a space. *)
RawNewlineAsSpace ==
    /\ Plain /\ ch \in {CR, LF}
    /\ text' = Append(text, SPACE)
    /\ i' = i + 1
    /\ Log
    /\ UNCHANGED <<rtfString, depth, skipGroup, pc, result, pass, other, rest>>

(* Variant: a raw line break is copied like any other character. *)
RawNewlineKeep ==
    /\ Plain /\ ch \in {CR, LF}
    /\ text' = Append(text, ch)
    /\ i' = i + 1
    /\ Log
    /\ UNCHANGED <<rtfString, depth, skipGroup, pc, result, pass, other, rest>>

(* if (ch === '\r' || ch === '\n') *)
RawNewline ==
    /\ Plain /\ ch \in {CR, LF}
    /\ i' = i + 1
    /\ Log
    /\ UNCHANGED <<rtfString, text, depth, skipGroup, pc, result, pass, other, rest>>

(* Variant: only ASCII characters are copied to the buffer. *)
PlainCharAscii ==
    /\ Plain /\ ch \notin {CR, LF}
    /\ text' = IF ch < 128 THEN Append(text, ch) ELSE text
    /\ i' = i + 1
    /\ Log
    /\ UNCHANGED <<rtfString, depth, skipGroup, pc, result, pass, other, rest>>

(* text += ch; i++ *)
PlainChar ==
    /\ Plain /\ ch \notin {CR, LF}
    /\ text' = Append(text, ch)
    /\ i' = i + 1
    /\ Log
    /\ UNCHANGED <<rtfString, depth, skipGroup, pc, result, pass, other, rest>>

(* Variant: an input left out of balance returns nothing. *)
ReturnBalanced ==
    /\ pc = "scan" /\ ~(i < len)
    /\ result' = IF depth = 0 /\ skipGroup = 0 THEN CleanUp(text) ELSE <<>>
    /\ pc' = "done"
    /\ UNCHANGED <<rtfString, text, depth, skipGroup, i, pass, hist, other, rest>>

(* The loop ends and the cleaned-up text is returned. *)
Return ==
    /\ pc = "scan" /\ ~(i < len)
    /\ result' = CleanUp(text)
    /\ pc' = "done"
    /\ UNCHANGED <<rtfString, text, depth, skipGroup, i, pass, hist, other, rest>>

----------------------------------------------------------------------------
(* The inputs the scan is run on.  Every string is a legal argument of     *)
(* parseRtf; the families below are chosen so that each branch of the loop *)
(* is taken in several scanner states.                                     *)

MaxTokens == 3
MaxTail == 4
MaxNorm == 6

RECURSIVE Strings(_, _)
(* Every concatenation of at most n members of the token set T. *)
Strings(T, n) ==
    IF n = 0 THEN {<<>>}
    ELSE LET S == Strings(T, n - 1) IN S \cup { s \o t : s \in S, t \in T }

(* Single characters and short words mixed freely:                         *)
(*   {  }  \  -  *  space  ?  B  65  u  par  pict                          *)
Tokens ==
    { <<LBRACE>>, <<RBRACE>>, <<BACKSLASH>>, <<HYPHEN>>, <<STAR>>, <<SPACE>>,
      <<63>>, <<66>>, <<54, 53>>, W_u, W_par, W_pict }

General == Strings(Tokens, MaxTokens)

(* The inputs the specification names (section 8 and the claims). *)
Examples ==
    { <<123, 92, 102, 111, 110, 116, 116, 98, 108, 123, 92, 102, 48, 32,
        65, 114, 105, 97, 108, 59, 125, 125, 72, 101, 108, 108, 111>>,  \* {\fonttbl{\f0 Arial;}}Hello
      <<65, 92, 112, 97, 114, 66>>,                                     \* A\parB
      <<65, 92, 112, 97, 114, 32, 66>>,                                 \* A\par B
      <<92, 39, 52, 49>>,                                               \* \'41
      <<92, 39, 122, 122>>,                                             \* \'zz
      <<92, 117, 54, 53, 63>>,                                          \* \u65?
      <<53, 48, 92, 37>>,                                               \* 50\%
      <<92, 123, 97, 92, 125>>,                                         \* \{a\}
      <<65, 92, 112, 97, 114, 92, 112, 97, 114, 92, 112, 97, 114, 32, 66>>, \* A\par\par\par B
      <<123, 123, 123, 117, 110, 99, 108, 111, 115, 101, 100>>,         \* {{{unclosed
      <<125, 123, 92, 102, 111, 110, 116, 116, 98, 108, 32, 65, 114,
        105, 97, 108, 125, 72, 101, 108, 108, 111>>,                    \* }{\fonttbl Arial}Hello
      <<123, 92, 42, 97, 98, 99, 125>>,                                 \* {\*abc}
      <<123, 92, 105, 110, 102, 111, 42, 120, 125>>,                    \* {\info*x}
      <<92, 98, 45, 120>> }                                             \* \b-x

(* Discard groups: an optional prefix, {\pict, then any mix of braces,     *)
(* backslashes, letters and blanks.                                        *)
ScopePrefixes == { <<>>, <<LBRACE>>, <<RBRACE>> }
ScopeTokens == { <<LBRACE>>, <<RBRACE>>, <<BACKSLASH>>, <<65>>, <<SPACE>> }
ScopeInputs ==
    { a \o <<LBRACE, BACKSLASH>> \o W_pict \o t :
        a \in ScopePrefixes, t \in Strings(ScopeTokens, MaxTail) }

(* Every name of the skip list, ended in several ways, around nested text: *)
(*   {\name<d>{a}b}c   for <d> one of  space 1 \ { * s  and nothing        *)
NameEnds == { <<>>, <<SPACE>>, <<49>>, <<BACKSLASH>>, <<LBRACE>>, <<STAR>>, <<115>> }
NameInputs ==
    { a \o <<LBRACE, BACKSLASH>> \o w \o d \o <<LBRACE, 97, RBRACE, 98, RBRACE, 99>> :
        a \in {<<>>, <<LBRACE>>}, w \in skipGroups, d \in NameEnds }

(* Control words:  <a>\<word><param><blanks><b>                            *)
Words ==
    { W_par, W_line, W_tab, W_u, W_lquote, W_rquote, W_ldblquote, W_rdblquote,
      W_bullet, W_endash, W_emdash, <<>>, <<98>>, <<80, 65, 82>>, W_par \o <<66>> }
Params == { <<>>, <<54, 53>>, <<49, 50, 51>>, <<HYPHEN>>, <<HYPHEN, 49>> }
Blanks == { <<>>, <<SPACE>>, <<SPACE, SPACE>> }
Followers ==
    { <<>>, <<63>>, <<66>>, <<SPACE>>, <<LF>>, <<BACKSLASH>>, <<LBRACE>>, <<RBRACE>>,
      <<63, 63>> }
WordInputs ==
    { a \o <<BACKSLASH>> \o w \o n \o d \o b :
        a \in {<<>>, <<65>>}, w \in Words, n \in Params, d \in Blanks, b \in Followers }

(* Hex escapes:  \'<c1><c2>  and  \'<c1><c2>B  for c1, c2 among the 22 hex *)
(* digits and  z G g x X space - + { } \ LF ?                              *)
HexProbe ==
    (48..57) \cup (97..102) \cup (65..70)
      \cup { 122, 71, 103, 120, 88, SPACE, HYPHEN, 43, LBRACE, RBRACE, BACKSLASH, LF, 63 }
HexInputs ==
    { <<BACKSLASH, APOSTROPHE, c1, c2>> \o b : c1 \in HexProbe, c2 \in HexProbe,
                                               b \in {<<>>, <<66>>} }

(* A backslash before one character:  <a>\<c><b>  for c among              *)
(*   % ? * LF CR TAB . ; ' 0 a Z space \ { } ~ - _                         *)
EscProbe ==
    { 37, 63, STAR, LF, CR, TAB, 46, 59, APOSTROPHE, 48, 97, 90, SPACE,
      BACKSLASH, LBRACE, RBRACE, TILDE, HYPHEN, UNDERSCORE }
EscInputs ==
    { a \o <<BACKSLASH, c>> \o b :
        a \in {<<>>, <<53, 48>>, <<LBRACE>>}, c \in EscProbe, b \in {<<>>, <<97>>} }

(* Paragraph breaks and blanks:  any mix of  \par<space>  A  space  \~     *)
NormTokens == { <<BACKSLASH>> \o W_par \o <<SPACE>>, <<65>>, <<SPACE>>, <<BACKSLASH, TILDE>> }
NormInputs == Strings(NormTokens, MaxNorm)

(* A scope inside a scope, each starting with a discard keyword or with   *)
(* the keyword b:  <prefix>{\<outer> {\<inner> a}b}c  (prefix: none, a     *)
(* brace or the letter A)                                                  *)
NestedWords == { W_pict, W_info, <<STAR>>, <<98>> }
NestedInputs ==
    { p \o <<LBRACE, BACKSLASH>> \o o \o <<SPACE, LBRACE, BACKSLASH>> \o n
        \o <<SPACE, 97, RBRACE, 98, RBRACE, 99>> :
        p \in ScopePrefixes \cup {<<65>>}, o \in NestedWords, n \in NestedWords }

(* Code points:  \u<param><b>  with parameters at and around the limits of *)
(* the signed and unsigned 16-bit ranges.                                   *)
CodePointParams ==
    { <<>>, <<HYPHEN>>, <<48>>, <<HYPHEN, 48>>, <<HYPHEN, 49>>, <<49, 48>>, <<56, 50, 49, 55>>,
      <<54, 53, 53, 51, 53>>, <<54, 53, 53, 51, 54>>,
      <<HYPHEN, 51, 50, 55, 54, 56>>, <<HYPHEN, 51, 50, 55, 54, 57>> }
CodePointInputs ==
    { <<BACKSLASH>> \o W_u \o n \o b :
        n \in CodePointParams, b \in {<<>>, <<63>>, <<BACKSLASH, 63>>} }

(* Text without markup: letters, several kinds of blank (tab, space,       *)
(* no-break space, em space), U+0085, which trim leaves in place, and raw  *)
(* line breaks.                                                            *)
PlainTokens == { <<65>>, <<SPACE>>, <<TAB>>, <<NBSP>>, <<8195>>, <<133>>, <<CR>>, <<LF>> }
PlainInputs == Strings(PlainTokens, MaxTokens)

(* Inputs cut off in the middle of a construct. *)
Malformed ==
    { <<92, 39>>,                              \* \'
      <<92, 39, 52>>,                          \* \'4
      <<92, 39, 52, 122>>,                     \* \'4z
      <<92, 117>>,                             \* \u
      <<92, 117, 45>>,                         \* \u-
      <<92, 117, 54>>,                         \* \u6
      <<92, 98, 45>>,                          \* \b-
      <<92, 112, 97, 114>>,                    \* \par
      <<123, 92, 112, 105, 99, 116>>,          \* {\pict
      <<123, 92, 112, 105, 99, 116, 123, 92>>, \* {\pict{\
      <<123, 92, 42>>,                         \* {\*
      <<125, 125, 123>> }                      \* }}{

Inputs ==
    General \cup Examples \cup Malformed \cup ScopeInputs \cup NameInputs
        \cup WordInputs \cup HexInputs \cup EscInputs \cup NormInputs
        \cup PlainInputs \cup NestedInputs \cup CodePointInputs

Init ==
    /\ rtfString \in Inputs
    /\ text = <<>>
    /\ depth = 0
    /\ skipGroup = 0
    /\ i = 0
    /\ pc = "scan"
    /\ result = <<>>
    /\ pass = 1
    /\ hist = {}
    /\ other = NoCall
    /\ Idle

Next ==
    \/ OpenBrace
    \/ CloseBrace
    \/ SkipChar
    \/ EscapeAtEnd
    \/ EscapeSpecial
    \/ EscapeHex
    \/ ControlWord
    \/ RawNewline
    \/ PlainChar
    \/ Return

Spec == Init /\ [][Next]_vars

MaxLiveTokens == 3

(*   {  }  \  '  -  *  space  65  u  pict                                   *)
LiveTokens ==
    { <<LBRACE>>, <<RBRACE>>, <<BACKSLASH>>, <<APOSTROPHE>>, <<HYPHEN>>, <<STAR>>,
      <<SPACE>>, <<54, 53>>, W_u, W_pict }

LiveInputs ==
    Strings(LiveTokens, MaxLiveTokens) \cup Examples \cup Malformed \cup EscInputs

InitFair ==
    /\ rtfString \in LiveInputs
    /\ text = <<>>
    /\ depth = 0
    /\ skipGroup = 0
    /\ i = 0
    /\ pc = "scan"
    /\ result = <<>>
    /\ pass = 1
    /\ hist = {}
    /\ other = NoCall
    /\ Idle

(* The scanning loop is synchronous code: once called it keeps taking steps *)
(* until it returns.                                                        *)
SpecFair == InitFair /\ [][Next]_vars /\ WF_vars(Next)

(* parseRtf called again, on the text the first call returned. *)
Rerun ==
    /\ pc = "done" /\ pass = 1
    /\ rtfString' = result
    /\ text' = <<>>
    /\ depth' = 0
    /\ skipGroup' = 0
    /\ i' = 0
    /\ pc' = "scan"
    /\ result' = <<>>
    /\ pass' = 2
    /\ hist' = {}
    /\ other' = other
    /\ UNCHANGED rest

NextRerun == Next \/ Rerun

SpecRerun == Init /\ [][NextRerun]_vars

(* Two invocations whose steps are interleaved.  text, depth, skipGroup, i  *)
(* and the other locals are declared with let/const inside parseRtf, so     *)
(* each invocation has its own; the variables above are the locals of the   *)
(* invocation that takes the next step and other holds those of the one     *)
(* that waits.  Switch hands the turn over.                                 *)

(* Variant: depth is declared outside the function, one for both. *)
SwitchSharedDepth ==
    /\ other.pc # "none"
    /\ other' = Frame
    /\ rtfString' = other.rtfString
    /\ text' = other.text
    /\ depth' = depth
    /\ skipGroup' = other.skipGroup
    /\ i' = other.i
    /\ pc' = other.pc
    /\ result' = other.result
    /\ hist' = other.hist
    /\ UNCHANGED <<pass, rest>>

Switch ==
    /\ other.pc # "none"
    /\ other' = Frame
    /\ rtfString' = other.rtfString
    /\ text' = other.text
    /\ depth' = other.depth
    /\ skipGroup' = other.skipGroup
    /\ i' = other.i
    /\ pc' = other.pc
    /\ result' = other.result
    /\ hist' = other.hist
    /\ UNCHANGED <<pass, rest>>

PairInputs ==
    Examples \cup Malformed \cup { <<65, BACKSLASH>>, <<65, LF, CR, 66>> }

InitPair ==
    /\ rtfString \in PairInputs
    /\ text = <<>>
    /\ depth = 0
    /\ skipGroup = 0
    /\ i = 0
    /\ pc = "scan"
    /\ result = <<>>
    /\ pass = 1
    /\ hist = {}
    /\ other \in { StartOf(s) : s \in PairInputs }
    /\ Idle

NextPair == Next \/ Switch

SpecPair == InitPair /\ [][NextPair]_vars

----------------------------------------------------------------------------
(* Properties. *)

(* A JavaScript string: a finite sequence of 16-bit code units. *)
IsString(t) == \A k \in 1..Len(t) : t[k] \in 0..65535

(* The history together with the present state, and the state recorded     *)
(* next after h (the cursor never moves back, see the steps above).        *)
Trace == hist \cup {Snap}
After(h) == { g \in Trace : g.i > h.i /\ \A f \in Trace : f.i > h.i => g.i <= f.i }

(* The state the latest iteration started from (none before the first).    *)
(* Each iteration is the latest one in the state it leads to, so a property *)
(* of the step from Last to Snap, holding in every reachable state, holds   *)
(* of every iteration.                                                      *)
Last == { h \in hist : \A f \in hist : f.i <= h.i }

(* C1: parseRtf is total -- on every input, malformed ones included (braces *)
(* out of balance, a lone trailing backslash, cut-off or invalid escapes,   *)
(* a parameter that is only a minus sign), the scan ends and a string is    *)
(* returned; no step is left without a successor before the return.         *)
C1_Total == <>(pc = "done" /\ IsString(result))

(* A malformed input (unbalanced, ending in a lone backslash) has returned. *)
C1_Witness ==
    /\ pc = "done"
    /\ depth # 0
    /\ Len(rtfString) > 0
    /\ rtfString[Len(rtfString)] = BACKSLASH

(* Brace matching, counted over all brace characters of the input:         *)
(* the surplus of '{' over '}' among the positions a..b (0-based), and the  *)
(* position of the '}' matching the '{' at k (a set: empty when unmatched). *)
Balance(s, a, b) ==
    Cardinality({ m \in a..b : CharIs(s, m, LBRACE) })
      - Cardinality({ m \in a..b : CharIs(s, m, RBRACE) })

MatchClose(s, k) ==
    { m \in (k + 1)..(Len(s) - 1) :
        /\ CharIs(s, m, RBRACE)
        /\ Balance(s, k, m) = 0
        /\ \A n \in (k + 1)..(m - 1) : Balance(s, k, n) > 0 }

(* The names of the discard set (the skip list without the generic '*'). *)
DiscardNames == skipGroups \ {<<STAR>>}

(* At k: '{', a backslash, a discard name, then a non-letter other than '*'. *)
IsDiscardOpen(s, k) ==
    /\ CharIs(s, k, LBRACE)
    /\ CharIs(s, k + 1, BACKSLASH)
    /\ \E w \in DiscardNames :
         LET e == k + 2 + Len(w)
         IN  /\ e < Len(s)
             /\ Substring(s, k + 2, e) = w
             /\ ~IsLetter(At(s, e))
             /\ At(s, e) # STAR

IsTextChar(c) == c \notin {LBRACE, RBRACE, BACKSLASH} /\ c \notin WhiteSpace

(* C3 (as stated): extract of the 6-character input A\parB is A, LF, B.     *)
C3_Original ==
    (pc = "done" /\ rtfString = <<65, 92, 112, 97, 114, 66>>) => result = <<65, LF, 66>>

(* C3 (amended): a par or line control keyword that is followed by its      *)
(* delimiter space, between two text characters a and b, yields a, LF, b    *)
(* (A\par B gives A, LF, B); in A\parB the letter B belongs to the keyword, *)
(* parB is not a known keyword, and the result is A.                        *)
C3_ParBetween ==
    pc = "done" =>
      /\ \A w \in {W_par, W_line} :
           LET n == Len(w)
           IN  ( /\ Len(rtfString) = n + 4
                 /\ IsTextChar(rtfString[1])
                 /\ SubSeq(rtfString, 2, n + 2) = <<BACKSLASH>> \o w
                 /\ rtfString[n + 3] = SPACE
                 /\ IsTextChar(rtfString[n + 4]) )
               => result = <<rtfString[1], LF, rtfString[n + 4]>>
      /\ rtfString = <<65, 92, 112, 97, 114, 66>> => result = <<65>>

(* A\line B has been extracted. *)
C3_Witness ==
    /\ pc = "done"
    /\ rtfString = <<65, BACKSLASH>> \o W_line \o <<SPACE, 66>>
    /\ result = <<65, LF, 66>>

(* The hexadecimal digits, in value order, lower and upper case. *)
HexLower == <<48, 49, 50, 51, 52, 53, 54, 55, 56, 57, 97, 98, 99, 100, 101, 102>>
HexUpper == <<48, 49, 50, 51, 52, 53, 54, 55, 56, 57, 65, 66, 67, 68, 69, 70>>
IsHex(c) == \E k \in 1..16 : HexLower[k] = c \/ HexUpper[k] = c
HexVal(c) == (CHOOSE k \in 1..16 : HexLower[k] = c \/ HexUpper[k] = c) - 1

(* The scanner, not skipping, is about to read a backslash at h.i that is   *)
(* followed by an apostrophe and two more characters.                       *)
AtHexEscape(h) ==
    /\ ~(h.skipGroup > 0)
    /\ CharIs(rtfString, h.i, BACKSLASH)
    /\ CharIs(rtfString, h.i + 1, APOSTROPHE)
    /\ h.i + 3 < Len(rtfString)

(* C4: a hex escape with two hexadecimal digits h1 h2, in either case,      *)
(* appends exactly one character, of code 16*h1 + h2; \'41 gives A.         *)
C4_HexEscape ==
    /\ \A h \in Trace :
         ( /\ AtHexEscape(h)
           /\ IsHex(At(rtfString, h.i + 2))
           /\ IsHex(At(rtfString, h.i + 3)) )
         => \A g \in After(h) :
              g.text = Append(h.text, 16 * HexVal(At(rtfString, h.i + 2))
                                         + HexVal(At(rtfString, h.i + 3)))
    /\ (pc = "done" /\ rtfString = <<92, 39, 52, 49>>) => result = <<65>>

(* \'fE has appended the character of code 254. *)
C4_Witness ==
    /\ rtfString = <<92, 39, 102, 69>>
    /\ i = 4
    /\ text = <<254>>

(* C5 (as stated): a hex escape whose two characters are not both           *)
(* hexadecimal digits appends nothing.                                      *)
C5_InvalidHexAppendsNothing ==
    \A h \in Trace :
      ( /\ AtHexEscape(h)
        /\ ~(IsHex(At(rtfString, h.i + 2)) /\ IsHex(At(rtfString, h.i + 3))) )
      => \A g \in After(h) : g.text = h.text

(* The end of the \u token that starts with the letter u at k: the letter,  *)
(* an optional minus sign, a run of digits, an optional single space.       *)
UTokenEnd(s, k) ==
    LET a == IF CharIs(s, k + 1, HYPHEN) THEN k + 2 ELSE k + 1
        b == CHOOSE j \in a..Len(s) :
                 /\ \A m \in a..(j - 1) : IsDigit(At(s, m))
                 /\ (j = Len(s) \/ ~IsDigit(At(s, j)))
    IN  IF CharIs(s, b, SPACE) THEN b + 1 ELSE b

(* The scanner, not skipping, is about to read a backslash at h.i that      *)
(* starts a control word whose name is exactly u.                           *)
AtCodePoint(h) ==
    /\ ~(h.skipGroup > 0)
    /\ CharIs(rtfString, h.i, BACKSLASH)
    /\ CharIs(rtfString, h.i + 1, 117)
    /\ ~(h.i + 2 < Len(rtfString) /\ IsLetter(At(rtfString, h.i + 2)))

(* C6: after the \uN token the very next character is consumed, and not    *)
(* emitted, exactly when it exists and is not a backslash, '{' or '}';      *)
(* otherwise the cursor stays on it and the next step reads it.  \u65?      *)
(* gives A.                                                                 *)
C6_FallbackGlyph ==
    /\ \A h \in Trace :
         AtCodePoint(h) =>
           LET e == UTokenEnd(rtfString, h.i + 1)
               eat == /\ e < Len(rtfString)
                      /\ At(rtfString, e) \notin {BACKSLASH, LBRACE, RBRACE}
           IN  \A g \in After(h) :
                 /\ g.i = IF eat THEN e + 1 ELSE e
                 /\ Len(g.text) <= Len(h.text) + 1
                 /\ SubSeq(g.text, 1, Len(h.text)) = h.text
    /\ (pc = "done" /\ rtfString = <<92, 117, 54, 53, 63>>) => result = <<65>>

(* \u65 followed by a space and a '{': the cursor has stopped on the brace. *)
C6_Witness ==
    /\ rtfString = <<65, 92, 117, 54, 53, SPACE, LBRACE>>
    /\ i = 6
    /\ text = <<65, 65>>

(* What each literal escape stands for. *)
LiteralOf(c) ==
    CASE c = BACKSLASH -> BACKSLASH
      [] c = LBRACE -> LBRACE
      [] c = RBRACE -> RBRACE
      [] c = TILDE -> 160
      [] c = HYPHEN -> 173
      [] c = UNDERSCORE -> 8209

(* C7: when not skipping, a backslash followed by \ { } ~ - or _ appends    *)
(* that character itself, U+00A0, U+00AD or U+2011 respectively, consumes   *)
(* exactly the two characters, and leaves depth and skip marker unchanged;  *)
(* \{a\} gives {a}.                                                         *)
C7_LiteralEscapes ==
    /\ \A h \in Trace :
         ( /\ ~(h.skipGroup > 0)
           /\ CharIs(rtfString, h.i, BACKSLASH)
           /\ h.i + 1 < Len(rtfString)
           /\ At(rtfString, h.i + 1)
                \in {BACKSLASH, LBRACE, RBRACE, TILDE, HYPHEN, UNDERSCORE} )
         => \A g \in After(h) :
              /\ g.text = Append(h.text, LiteralOf(At(rtfString, h.i + 1)))
              /\ g.i = h.i + 2
              /\ g.depth = h.depth
              /\ g.skipGroup = h.skipGroup
    /\ (pc = "done" /\ rtfString = <<92, 123, 97, 92, 125>>) => result = <<123, 97, 125>>

(* Inside a group, \- has appended a soft hyphen and the depth is still 1. *)
C7_Witness ==
    /\ rtfString = <<LBRACE, BACKSLASH, HYPHEN>>
    /\ i = 3
    /\ depth = 1
    /\ text = <<173>>

(* The scanner, not skipping, is about to read a backslash at h.i followed  *)
(* by a character that is no escape target and no letter, digit or space.   *)
AtBareBackslash(h) ==
    /\ ~(h.skipGroup > 0)
    /\ CharIs(rtfString, h.i, BACKSLASH)
    /\ h.i + 1 < Len(rtfString)
    /\ LET c == At(rtfString, h.i + 1)
       IN  /\ c \notin {BACKSLASH, LBRACE, RBRACE, TILDE, HYPHEN, UNDERSCORE, APOSTROPHE}
           /\ ~IsLetter(c) /\ ~IsDigit(c) /\ c # SPACE

(* The step from h emits nothing and leaves the cursor on the next         *)
(* character, and the step after it appends `out` and moves past it.       *)
BackslashThen(h, out) ==
    \A g \in After(h) :
      /\ g.text = h.text
      /\ g.i = h.i + 1
      /\ \A f \in After(g) : f.text = h.text \o out /\ f.i = h.i + 2

(* C8 (as stated): such a backslash emits nothing and the character after  *)
(* it is then output verbatim.                                              *)
C8_Original ==
    \A h \in Trace :
      AtBareBackslash(h) => BackslashThen(h, <<At(rtfString, h.i + 1)>>)

(* C8 (amended): such a backslash emits nothing; the character after it is *)
(* then output verbatim unless it is a CR or LF, which is dropped like any *)
(* raw line break.  50\% gives 50%.                                        *)
C8_BareBackslash ==
    /\ \A h \in Trace :
         AtBareBackslash(h) =>
           LET c == At(rtfString, h.i + 1)
           IN  BackslashThen(h, IF c \in {CR, LF} THEN <<>> ELSE <<c>>)
    /\ (pc = "done" /\ rtfString = <<53, 48, 92, 37>>) => result = <<53, 48, 37>>

(* 50\% has been scanned to its end. *)
C8_Witness ==
    /\ rtfString = <<53, 48, 92, 37>>
    /\ i = 4
    /\ text = <<53, 48, 37>>

(* C9: the returned string holds no run of three or more line feeds and    *)
(* neither starts nor ends with white space; a run of three or more line   *)
(* feeds between two non-blank characters of the buffer is returned as     *)
(* exactly two between them.  A\par\par\par B gives A, LF, LF, B.          *)
C9_Normalized ==
    pc = "done" =>
      /\ \A k \in 1..(Len(result) - 2) :
           ~(result[k] = LF /\ result[k + 1] = LF /\ result[k + 2] = LF)
      /\ result # <<>> =>
           (result[1] \notin WhiteSpace /\ result[Len(result)] \notin WhiteSpace)
      /\ \A a \in 1..Len(text) : \A b \in (a + 4)..Len(text) :
           ( /\ text[a] \notin WhiteSpace
             /\ text[b] \notin WhiteSpace
             /\ \A m \in (a + 1)..(b - 1) : text[m] = LF )
           => \E k \in 1..(Len(result) - 3) :
                SubSeq(result, k, k + 3) = <<text[a], LF, LF, text[b]>>
      /\ rtfString = <<65, 92, 112, 97, 114, 92, 112, 97, 114, 92, 112, 97, 114, 32, 66>>
           => result = <<65, LF, LF, 66>>

(* A buffer that starts with a blank and holds three line feeds in a row   *)
(* between two letters has been cleaned up.                                *)
C9_Witness ==
    /\ pc = "done"
    /\ text = <<SPACE, 65, LF, LF, LF, 65>>
    /\ result = <<65, LF, LF, 65>>

(* C10 (as stated): extracting the extractor's own output returns it       *)
(* unchanged.                                                              *)
C10_Original == (pass = 2 /\ pc = "done") => result = rtfString

(* C10 (amended): extracting an output t of the extractor returns t        *)
(* whenever t holds no backslash, no brace, no CR and no LF.               *)
C10_Idempotent ==
    ( /\ pass = 2
      /\ pc = "done"
      /\ \A k \in 1..Len(rtfString) :
           rtfString[k] \notin {BACKSLASH, LBRACE, RBRACE, CR, LF} )
    => result = rtfString

(* An output with a no-break space and a blank inside came back unchanged. *)
C10_Witness ==
    /\ pass = 2
    /\ pc = "done"
    /\ Len(rtfString) >= 3
    /\ \E k \in 1..Len(rtfString) : rtfString[k] = NBSP
    /\ \E k \in 1..Len(rtfString) : rtfString[k] = SPACE
    /\ result = rtfString

(* The scope markers and the escape introducer. *)
Markers == {LBRACE, RBRACE, BACKSLASH}

(* The step taken from h is an escape that can produce a marker: a literal *)
(* escape of a marker, a hex escape, or the keyword u.                     *)
AtMarkerEscape(h) ==
    /\ ~(h.skipGroup > 0)
    /\ CharIs(rtfString, h.i, BACKSLASH)
    /\ \/ h.i + 1 < Len(rtfString) /\ At(rtfString, h.i + 1) \in Markers \cup {APOSTROPHE}
       \/ AtCodePoint(h)

(* The characters the step from h to g appended. *)
Appended(h, g) ==
    IF Len(g.text) > Len(h.text) THEN SubSeq(g.text, Len(h.text) + 1, Len(g.text)) ELSE <<>>

(* C11 as stated: the returned text holds no '{', no '}' and no backslash. *)
C11_Original ==
    pc = "done" => \A k \in 1..Len(result) : result[k] \notin Markers

(* C11: a '{', '}' or backslash reaches the output only through an escape  *)
(* -- the only steps that append one are the literal escapes \{ \} \\,    *)
(* the hex escape and the keyword u; every other step (brace, skipped      *)
(* character, other keyword, raw CR/LF, plain character) appends none, and *)
(* the final clean-up adds none.  \{a\} gives {a}.                         *)
C11_MarkersOnlyFromEscapes ==
    /\ \A h \in Last :
         (\E k \in 1..Len(Appended(h, Snap)) : Appended(h, Snap)[k] \in Markers) =>
             AtMarkerEscape(h)
    /\ pc = "done" =>
         /\ \A k \in 1..Len(result) :
              result[k] \in Markers => \E m \in 1..Len(text) : text[m] = result[k]
         /\ (\A k \in 1..Len(rtfString) : rtfString[k] # BACKSLASH) =>
              \A k \in 1..Len(result) : result[k] \notin Markers
         /\ rtfString = <<92, 123, 97, 92, 125>> => result = <<123, 97, 125>>

(* \{a\} has returned {a}, and a hex escape has produced a backslash.      *)
C11_Witness ==
    \/ pc = "done" /\ rtfString = <<92, 123, 97, 92, 125>> /\ result = <<123, 97, 125>>
    \/ pc = "done" /\ rtfString = <<92, 39, 53, 99>> /\ result = <<BACKSLASH>>

(* At k (just after a '{'): a backslash, then the generic-skip symbol '*'   *)
(* or a maximal run of letters that is a discard name.                      *)
LeadsDiscard(s, k) ==
    /\ CharIs(s, k, BACKSLASH)
    /\ \/ CharIs(s, k + 1, STAR)
       \/ Substring(s, k + 1, RunEnd(s, k + 1, FALSE)) \in DiscardNames

(* C12: unbalanced input is absorbed -- when the scan ends with depth > 0   *)
(* or with a skip still active, the value returned is the buffer as it      *)
(* stands, normalized; a step that reads an unmatched '{' not followed by a *)
(* discard keyword only raises the depth (buffer and skip marker are left   *)
(* as they were); {{{unclosed gives unclosed.                               *)
C12_UnbalancedAbsorbed ==
    /\ (pc = "done" /\ (depth > 0 \/ skipGroup > 0)) =>
          /\ IsString(result)
          /\ result = Trim(Collapse(text))
    /\ \A h \in Last :
         ( /\ CharIs(rtfString, h.i, LBRACE)
           /\ MatchClose(rtfString, h.i) = {}
           /\ ~LeadsDiscard(rtfString, h.i + 1) ) =>
             Snap = [i |-> h.i + 1, depth |-> h.depth + 1,
                     skipGroup |-> h.skipGroup, text |-> h.text]
    /\ (pc = "done" /\ rtfString = <<123, 123, 123, 117, 110, 99, 108, 111, 115, 101, 100>>) =>
          result = <<117, 110, 99, 108, 111, 115, 101, 100>>

(* {{{unclosed has returned unclosed with three scopes still open.          *)
C12_Witness ==
    /\ pc = "done"
    /\ rtfString = <<123, 123, 123, 117, 110, 99, 108, 111, 115, 101, 100>>
    /\ depth = 3
    /\ result = <<117, 110, 99, 108, 111, 115, 101, 100>>

(* Text without markup: no backslash, no brace, no CR, no LF. *)
IsPlainText(s) == \A k \in 1..Len(s) : s[k] \notin Markers \cup {CR, LF}

(* t is s without its leading and trailing white space. *)
IsTrimOf(t, s) ==
    \E a, b \in 0..Len(s) :
        /\ a + b <= Len(s)
        /\ t = SubSeq(s, a + 1, Len(s) - b)
        /\ \A k \in 1..a : s[k] \in WhiteSpace
        /\ \A k \in (Len(s) - b + 1)..Len(s) : s[k] \in WhiteSpace
        /\ t # <<>> => (t[1] \notin WhiteSpace /\ t[Len(t)] \notin WhiteSpace)

(* C13: plain text passes through -- for an input with no backslash, no     *)
(* brace, no CR and no LF, every character is appended to the buffer in     *)
(* order and the value returned is the input without its leading and        *)
(* trailing white space; the empty input gives the empty string.            *)
C13_PlainPassesThrough ==
    /\ IsPlainText(rtfString) =>
          /\ \A h \in Trace : h.text = SubSeq(rtfString, 1, h.i)
          /\ pc = "done" => IsTrimOf(result, rtfString)
    /\ (pc = "done" /\ rtfString = <<>>) => result = <<>>

(* A plain input with blanks at both ends and inside has been returned. *)
C13_Witness ==
    /\ pc = "done"
    /\ rtfString = <<NBSP, 65, TAB>>
    /\ result = <<65>>

(* C15: the scope depth is never negative, and a '}' read at depth 0 leaves *)
(* the depth at 0.                                                          *)
C15_DepthNonNegative ==
    /\ depth >= 0
    /\ \A h \in Trace :
         (CharIs(rtfString, h.i, RBRACE) /\ h.depth = 0) =>
             \A g \in After(h) : g.depth = 0

(* A discard keyword, as the scanner reads it, follows the '{' at k. *)
OpensDiscard(s, k) ==
    /\ CharIs(s, k, LBRACE)
    /\ CharIs(s, k + 1, BACKSLASH)
    /\ GroupWord(s, k + 1) \in skipGroups

(* C16: entering a discard scope always starts a skip -- after a step that  *)
(* reads '{' followed by a discard keyword while no skip is active, the     *)
(* scanner is skipping, and it stays so on every step up to the matching    *)
(* '}' (to the end of input when there is none), whatever the depth; in     *)
(* }{\fonttbl Arial}Hello the font table is discarded.                      *)
C16_DiscardStartsSkip ==
    /\ \A h \in Trace :
         (~(h.skipGroup > 0) /\ OpensDiscard(rtfString, h.i)) =>
             \A g \in Trace :
                 (g.i > h.i /\ \A m \in MatchClose(rtfString, h.i) : g.i <= m) =>
                     (g.skipGroup > 0 /\ g.text = h.text)
    /\ (pc = "done" /\ rtfString = <<125, 123, 92, 102, 111, 110, 116, 116, 98, 108, 32,
                                     65, 114, 105, 97, 108, 125, 72, 101, 108, 108, 111>>) =>
          result = <<72, 101, 108, 108, 111>>

(* C17: the cursor never leaves the input -- 0 <= i <= len in every state   *)
(* of the scan, also when the input ends in the middle of an escape.        *)
C17_CursorInRange == 0 <= i /\ i <= Len(rtfString)

(* C18: the scan terminates -- every iteration of the loop moves the cursor *)
(* forward by at least one, no step moves it back, and the number of        *)
(* iterations made on an input of length n never exceeds n.                 *)
C18_Terminates ==
    [][ /\ (pc = "scan" /\ i < Len(rtfString)) => i' >= i + 1
        /\ i' >= i
        /\ Cardinality(hist') <= Len(rtfString) ]_vars

(* A scan that took one iteration per character has returned, and so has   *)
(* one with an iteration that read several characters.                      *)
C18_Witness ==
    /\ pc = "done"
    /\ Len(rtfString) >= 3
    /\ Cardinality(hist) = Len(rtfString)

(* C19: the transitions of the skip marker -- it leaves 0 only on a step    *)
(* that reads '{' followed by a discard keyword, and then holds the depth   *)
(* after the increment; once set it keeps its value (a nested scope that    *)
(* starts with a discard keyword does not change it) until it is cleared;   *)
(* while skipping it is cleared only by a step that reads '}' at the depth  *)
(* it holds, and by every such step.                                        *)
C19_MarkerTransitions ==
    \A h \in Last :
        /\ (h.skipGroup = 0 /\ skipGroup # 0) =>
              /\ CharIs(rtfString, h.i, LBRACE)
              /\ LeadsDiscard(rtfString, h.i + 1)
              /\ depth = h.depth + 1
              /\ skipGroup = depth
        /\ h.skipGroup # 0 => skipGroup \in {h.skipGroup, 0}
        /\ (h.skipGroup > 0 /\ CharIs(rtfString, h.i, LBRACE)
               /\ LeadsDiscard(rtfString, h.i + 1)) => skipGroup = h.skipGroup
        /\ (h.skipGroup # 0 /\ skipGroup = 0) =>
              (CharIs(rtfString, h.i, RBRACE) /\ h.depth = h.skipGroup)
        /\ (h.skipGroup > 0 /\ CharIs(rtfString, h.i, RBRACE) /\ h.depth = h.skipGroup) =>
              skipGroup = 0

(* In {\pict {\info a}b}c the inner discard scope was entered and left     *)
(* with the marker at 1, and the outer '}' has cleared it.                  *)
C19_Witness ==
    /\ rtfString = <<LBRACE, BACKSLASH>> \o W_pict \o <<SPACE, LBRACE, BACKSLASH>> \o W_info
                      \o <<SPACE, 97, RBRACE, 98, RBRACE, 99>>
    /\ pc = "done"
    /\ result = <<99>>
    /\ \E h \in hist : h.i = 7 /\ h.skipGroup = 1 /\ h.depth = 1
    /\ \E h \in hist : h.i = 8 /\ h.skipGroup = 1 /\ h.depth = 2
    /\ \E h \in hist : h.i = 18 /\ h.skipGroup = 0 /\ h.depth = 0

(* C20: discard detection reads the first control keyword of a scope as    *)
(* the dispatcher does -- a '{' read while the marker is clear (depth >= 0) *)
(* starts a skip if and only if it is followed by a backslash and then by   *)
(* '*' or by a maximal run of letters that is a discard name, whatever      *)
(* comes next; {\*abc} and {\info*x} are discarded.                         *)
C20_DetectsAsDispatcher ==
    /\ \A h \in Trace :
         (CharIs(rtfString, h.i, LBRACE) /\ h.skipGroup = 0 /\ h.depth >= 0) =>
             \A g \in After(h) : (g.skipGroup > 0) <=> LeadsDiscard(rtfString, h.i + 1)
    /\ (pc = "done" /\ rtfString \in { <<123, 92, 42, 97, 98, 99, 125>>,
                                        <<123, 92, 105, 110, 102, 111, 42, 120, 125>> }) =>
          result = <<>>

(* One iteration of the loop as a function of the invocation's own input s *)
(* and its own locals r, the locals at the end of the loop, and the value   *)
(* an invocation running alone returns.                                     *)
Step(s, r) ==
    LET c == At(s, r.i)
        k == r.i + 1
    IN  IF c = LBRACE THEN
            [i |-> k, depth |-> r.depth + 1, text |-> r.text,
             skipGroup |-> IF StartsSkip(s, k, r.skipGroup) THEN r.depth + 1 ELSE r.skipGroup]
        ELSE IF c = RBRACE THEN
            [i |-> k, depth |-> r.depth - 1, text |-> r.text,
             skipGroup |-> IF r.skipGroup > 0 /\ r.depth = r.skipGroup THEN 0 ELSE r.skipGroup]
        ELSE IF r.skipGroup > 0 THEN [r EXCEPT !.i = k]
        ELSE IF c = BACKSLASH THEN
            IF k >= Len(s) THEN [r EXCEPT !.i = k]
            ELSE IF At(s, k) \in SpecialChars THEN
                [r EXCEPT !.i = k + 1, !.text = r.text \o SpecialText(At(s, k))]
            ELSE IF At(s, k) = APOSTROPHE THEN
                [r EXCEPT !.i = k + 3, !.text = r.text \o HexText(s, k)]
            ELSE
                LET w == RunEnd(s, k, FALSE)
                    p == ParamEnd(s, w)
                IN  [r EXCEPT !.i = WordCursor(s, k),
                              !.text = r.text \o WordText(Substring(s, k, w), Substring(s, w, p))]
        ELSE IF c \in {CR, LF} THEN [r EXCEPT !.i = k]
        ELSE [r EXCEPT !.i = k, !.text = Append(r.text, c)]

RECURSIVE RunFrom(_, _)
RunFrom(s, r) == IF r.i < Len(s) THEN RunFrom(s, Step(s, r)) ELSE r

Alone(s) ==
    CleanUp(RunFrom(s, [i |-> 0, depth |-> 0, skipGroup |-> 0, text |-> <<>>]).text)

(* Whether the latest step of an invocation f was computed from f's own   *)
(* input and locals alone, and whether f returned what a run alone returns. *)
OwnSteps(f) ==
    /\ f.hist = {} => (f.i = 0 /\ f.depth = 0 /\ f.skipGroup = 0 /\ f.text = <<>>)
    /\ \A h \in f.hist :
         (\A e \in f.hist : e.i <= h.i) =>
             [i |-> f.i, depth |-> f.depth, skipGroup |-> f.skipGroup, text |-> f.text]
                 = Step(f.rtfString, h)
    /\ f.pc = "done" => f.result = Alone(f.rtfString)

(* C14: two invocations on independent inputs, their steps interleaved in  *)
(* any order, do not interfere -- every step of either one is computed from *)
(* that invocation's own input and locals, and each returns what it         *)
(* returns when it runs alone.                                              *)
C14_Independent == OwnSteps(Frame) /\ OwnSteps(other)

(* {\fonttbl{\f0 Arial;}}Hello has returned Hello while an invocation on   *)
(* {{{unclosed is two steps into its scan.                                  *)
C14_Witness ==
    /\ pc = "done"
    /\ rtfString = <<123, 92, 102, 111, 110, 116, 116, 98, 108, 123, 92, 102, 48, 32,
                     65, 114, 105, 97, 108, 59, 125, 125, 72, 101, 108, 108, 111>>
    /\ result = <<72, 101, 108, 108, 111>>
    /\ other.pc = "scan"
    /\ other.rtfString = <<123, 123, 123, 117, 110, 99, 108, 111, 115, 101, 100>>
    /\ other.i = 2
    /\ other.depth = 2

(* a is a prefix of b. *)
IsPrefix(a, b) == Len(a) <= Len(b) /\ SubSeq(b, 1, Len(a)) = a

(* C21: nothing is emitted while skipping -- every step taken while a skip  *)
(* is active (the steps that read nested braces and the '}' that ends the   *)
(* skip included) leaves the buffer as it was, and every step of the scan   *)
(* leaves the old buffer as a prefix of the new one.                        *)
C21_SilentWhileSkipping ==
    \A h \in Last :
        /\ h.skipGroup > 0 => text = h.text
        /\ IsPrefix(h.text, text)

(* Text was emitted, then a discard scope with a nested scope was skipped  *)
(* and closed, with the buffer still as it was before the scope.            *)
C21_Witness ==
    /\ text # <<>>
    /\ skipGroup = 0
    /\ \E h \in Last : h.skipGroup > 0 /\ CharIs(rtfString, h.i, RBRACE) /\ h.text = text
    /\ \E h \in hist : h.skipGroup > 0 /\ h.depth > h.skipGroup /\ h.text = text

(* C22: escapes are not interpreted while skipping -- a backslash read      *)
(* while a skip is active is one discarded character, so a brace after it   *)
(* is read as a scope marker: a '}' at the skip depth ends the skip, a '{'  *)
(* raises the depth, and neither adds to the buffer.                        *)
C22_NoEscapesWhileSkipping ==
    \A h \in Last :
        /\ (h.skipGroup > 0 /\ CharIs(rtfString, h.i, BACKSLASH)) =>
              Snap = [h EXCEPT !.i = h.i + 1]
        /\ (h.skipGroup > 0 /\ h.i > 0 /\ CharIs(rtfString, h.i - 1, BACKSLASH)) =>
              /\ CharIs(rtfString, h.i, RBRACE) =>
                    Snap = [i |-> h.i + 1, depth |-> h.depth - 1, text |-> h.text,
                            skipGroup |-> IF h.depth = h.skipGroup THEN 0 ELSE h.skipGroup]
              /\ CharIs(rtfString, h.i, LBRACE) =>
                    Snap = [i |-> h.i + 1, depth |-> h.depth + 1, text |-> h.text,
                            skipGroup |-> h.skipGroup]

(* In {\pict\}A the backslash was skipped, the '}' after it ended the skip *)
(* and the A that follows is text.                                          *)
C22_Witness ==
    /\ rtfString = <<LBRACE, BACKSLASH>> \o W_pict \o <<BACKSLASH, RBRACE, 65>>
    /\ pc = "done"
    /\ result = <<65>>
    /\ \E h \in hist : h.i = 6 /\ h.skipGroup = 1
    /\ \E h \in hist : h.i = 7 /\ h.skipGroup = 1 /\ h.depth = 1
    /\ \E h \in hist : h.i = 8 /\ h.skipGroup = 0 /\ h.depth = 0

(* C23: a hex escape consumes the apostrophe and the two characters after  *)
(* it whether or not they parse -- the step moves the cursor four places    *)
(* from the backslash, so the next step reads the character after the two;  *)
(* it appends at most one character and leaves depth and skip marker as     *)
(* they were, also when one of the two characters is '{', '}' or a          *)
(* backslash.                                                               *)
C23_HexConsumesThree ==
    \A h \in Last :
        ( /\ ~(h.skipGroup > 0)
          /\ CharIs(rtfString, h.i, BACKSLASH)
          /\ CharIs(rtfString, h.i + 1, APOSTROPHE) ) =>
            /\ i = h.i + 4
            /\ depth = h.depth
            /\ skipGroup = h.skipGroup
            /\ IsPrefix(h.text, text)
            /\ Len(text) <= Len(h.text) + 1

(* \'{}B has returned B: the two braces were swallowed at depth 0. *)
C23_Witness ==
    /\ rtfString = <<BACKSLASH, APOSTROPHE, LBRACE, RBRACE, 66>>
    /\ pc = "done"
    /\ result = <<66>>
    /\ depth = 0
    /\ skipGroup = 0

(* The number written by a run of decimal digits. *)
RECURSIVE DecimalOf(_)
DecimalOf(d) ==
    IF d = <<>> THEN 0
    ELSE 10 * DecimalOf(SubSeq(d, 1, Len(d) - 1)) + (d[Len(d)] - 48)

(* C24: code-point normalization -- the keyword u with parameter N appends *)
(* one code unit, N when 0 <= N <= 65535 and N + 65536 when                 *)
(* -32768 <= N < 0; with no parameter, or with a minus sign and no digit,   *)
(* it appends nothing.                                                      *)
C24_CodePoint ==
    \A h \in Last :
        AtCodePoint(h) =>
            LET m == IF CharIs(rtfString, h.i + 2, HYPHEN) THEN h.i + 3 ELSE h.i + 2
                e == DigitsEnd(rtfString, m)
                v == DecimalOf(Substring(rtfString, m, e))
                N == IF m = h.i + 3 THEN 0 - v ELSE v
            IN  /\ e = m => text = h.text
                /\ (e > m /\ 0 <= N /\ N <= 65535) => text = Append(h.text, N)
                /\ (e > m /\ -32768 <= N /\ N < 0) => text = Append(h.text, N + 65536)

(* The parameters -32768 and 65535 have appended U+8000 and U+FFFF. *)
C24_Witness ==
    \/ /\ rtfString = <<BACKSLASH>> \o W_u \o <<HYPHEN, 51, 50, 55, 54, 56, 63>>
       /\ pc = "done"
       /\ text = <<32768>>
    \/ /\ rtfString = <<BACKSLASH>> \o W_u \o <<54, 53, 53, 51, 53>>
       /\ pc = "done"
       /\ text = <<65535>>

(* The step from h reads a control keyword: a backslash, read while not    *)
(* skipping, before a character that starts neither a literal nor a hex     *)
(* escape.  NameEnd is the index just after the keyword's letters.          *)
AtKeyword(h) ==
    /\ ~(h.skipGroup > 0)
    /\ CharIs(rtfString, h.i, BACKSLASH)
    /\ h.i + 1 < Len(rtfString)
    /\ At(rtfString, h.i + 1) \notin SpecialChars \cup {APOSTROPHE}
NameEnd(h) == RunEnd(rtfString, h.i + 1, FALSE)
NameOf(h) == Substring(rtfString, h.i + 1, NameEnd(h))

(* The index just after the parameter that starts at w: an optional minus  *)
(* sign followed by at least one digit (w itself when there is none).       *)
NumberEnd(s, w) ==
    LET m == IF CharIs(s, w, HYPHEN) THEN w + 1 ELSE w
        e == DigitsEnd(s, m)
    IN  IF e > m THEN e ELSE w

(* C25: parameter tokenization -- after a keyword's name only an optional  *)
(* minus sign followed by at least one digit is consumed as the parameter;  *)
(* a minus sign with no digit after it stays in the input and is emitted as *)
(* text: \b-x gives -x.                                                     *)
C25_ParameterToken ==
    /\ \A h \in Last :
         ( /\ AtKeyword(h)
           /\ NameOf(h) # W_u
           /\ CharIs(rtfString, NameEnd(h), HYPHEN)
           /\ NumberEnd(rtfString, NameEnd(h)) = NameEnd(h) ) =>
             i = NameEnd(h)
    /\ (pc = "done" /\ rtfString = <<92, 98, 45, 120>>) => result = <<45, 120>>

(* C26: keyword delimiter -- after a keyword other than u and its optional *)
(* parameter one space, if present, is consumed and not emitted; the step   *)
(* ends right after it, so a second space is read as text, and a character  *)
(* other than a space that ends the keyword is not consumed.                *)
C26_KeywordDelimiter ==
    \A h \in Last :
        (AtKeyword(h) /\ NameOf(h) # W_u) =>
            LET p == NumberEnd(rtfString, NameEnd(h))
            IN  /\ i = IF CharIs(rtfString, p, SPACE) THEN p + 1 ELSE p
                /\ \A k \in (Len(h.text) + 1)..Len(text) : text[k] # SPACE

(* The reference table of keywords and the character each stands for. *)
KeywordTable ==
    { <<<<112, 97, 114>>, 10>>, <<<<108, 105, 110, 101>>, 10>>, <<<<116, 97, 98>>, 9>>,
      <<<<108, 113, 117, 111, 116, 101>>, 8216>>, <<<<114, 113, 117, 111, 116, 101>>, 8217>>,
      <<<<108, 100, 98, 108, 113, 117, 111, 116, 101>>, 8220>>,
      <<<<114, 100, 98, 108, 113, 117, 111, 116, 101>>, 8221>>,
      <<<<98, 117, 108, 108, 101, 116>>, 8226>>, <<<<101, 110, 100, 97, 115, 104>>, 8211>>,
      <<<<101, 109, 100, 97, 115, 104>>, 8212>> }
TableText(name) ==
    IF \E e \in KeywordTable : e[1] = name
    THEN <<(CHOOSE e \in KeywordTable : e[1] = name)[2]>>
    ELSE <<>>

(* C27: keyword dispatch equals the reference table -- a keyword other     *)
(* than u appends the character the table gives for its name (the maximal   *)
(* run of letters after the backslash) and nothing when the name is not in  *)
(* the table (the empty name, PAR, parB), whatever its parameter.           *)
C27_DispatchTable ==
    \A h \in Last :
        (AtKeyword(h) /\ NameOf(h) # <<117>>) => text = h.text \o TableText(NameOf(h))

(* A\emdash65 ? has returned A, an em dash and the question mark. *)
C27_Witness ==
    /\ rtfString = <<65, BACKSLASH>> \o W_emdash \o <<54, 53, SPACE, 63>>
    /\ pc = "done"
    /\ result = <<65, EMDASH, 63>>

(* s without its CR and LF characters. *)
RECURSIVE WithoutBreaks(_)
WithoutBreaks(s) ==
    IF s = <<>> THEN <<>>
    ELSE (IF s[1] \in {CR, LF} THEN <<>> ELSE <<s[1]>>) \o WithoutBreaks(Tail(s))

(* C28: raw CR and LF are insignificant in text -- for an input without    *)
(* backslash and brace, the value returned is the one returned for the      *)
(* input with every CR and LF deleted, and it holds no CR and no LF.        *)
C28_RawBreaksInsignificant ==
    (pc = "done" /\ \A k \in 1..Len(rtfString) : rtfString[k] \notin Markers) =>
        /\ result = Alone(WithoutBreaks(rtfString))
        /\ \A k \in 1..Len(result) : result[k] \notin {CR, LF}

(* A, CR, A has returned AA. *)
C28_Witness ==
    /\ rtfString = <<65, CR, 65>>
    /\ pc = "done"
    /\ result = <<65, 65>>

(* The step from h to the present state appended a line feed. *)
AppendedLF(h) == \E k \in 1..Len(Appended(h, Snap)) : Appended(h, Snap)[k] = LF

(* The step from h reads the keyword par or line. *)
AtBreakKeyword(h) ==
    AtKeyword(h) /\ NameOf(h) \in { <<112, 97, 114>>, <<108, 105, 110, 101>> }

(* C29 as stated: a line feed is appended by the keywords par and line     *)
(* only.                                                                    *)
C29_Original == \A h \in Last : AppendedLF(h) => AtBreakKeyword(h)

(* C29: a line feed reaches the output through par, line or a numeric      *)
(* escape only -- the steps that append one are the keywords par and line,  *)
(* the hex escape and the keyword u (when they decode to U+000A); raw CR    *)
(* and LF, literal escapes, other keywords, plain characters, braces and    *)
(* skipped characters append none, and the clean-up adds none, so an input  *)
(* without a backslash returns no line feed.                                *)
C29_BreaksFromKeywordsOrCodes ==
    /\ \A h \in Last :
         AppendedLF(h) =>
             \/ AtBreakKeyword(h)
             \/ AtCodePoint(h)
             \/ /\ ~(h.skipGroup > 0)
                /\ CharIs(rtfString, h.i, BACKSLASH)
                /\ CharIs(rtfString, h.i + 1, APOSTROPHE)
    /\ pc = "done" =>
         /\ Cardinality({ k \in 1..Len(result) : result[k] = LF })
              <= Cardinality({ k \in 1..Len(text) : text[k] = LF })
         /\ (\A k \in 1..Len(rtfString) : rtfString[k] # BACKSLASH) =>
              \A k \in 1..Len(result) : result[k] # LF

(* \'0aB has put a line feed and B in the buffer. *)
C29_Witness ==
    /\ rtfString = <<BACKSLASH, APOSTROPHE, 48, 97, 66>>
    /\ pc = "done"
    /\ text = <<LF, 66>>

(* The states from which the '{' that started a skip was read: those in    *)
(* the history with the marker clear and a set marker right after.          *)
SkipStarts ==
    { o \in hist : o.skipGroup = 0 /\ \E g \in After(o) : g.skipGroup > 0 }

(* C30: the skip-depth invariant -- while a skip is active the depth D it  *)
(* started at satisfies 1 <= D <= depth, and the '}' that ends a skip is    *)
(* the one matching the '{' that started it.                                *)
C30_SkipDepth ==
    /\ skipGroup > 0 => (1 <= skipGroup /\ skipGroup <= depth)
    /\ \A h \in Last :
         (h.skipGroup > 0 /\ skipGroup = 0) =>
             \E o \in SkipStarts :
                 /\ \A p \in SkipStarts : p.i <= o.i
                 /\ h.i \in MatchClose(rtfString, o.i)
                 /\ depth = o.depth

(* In A{\pict {\pict a}b}c the skip started at depth 1, went to depth 2    *)
(* and was ended by the second '}'.                                         *)
C30_Witness ==
    /\ rtfString = <<65, LBRACE, BACKSLASH>> \o W_pict \o <<SPACE, LBRACE, BACKSLASH>> \o W_pict
                      \o <<SPACE, 97, RBRACE, 98, RBRACE, 99>>
    /\ pc = "done"
    /\ result = <<65, 99>>
    /\ \E h \in hist : h.skipGroup = 1 /\ h.depth = 2
    /\ \E h \in hist : h.i = 18 /\ h.skipGroup = 1 /\ h.depth = 1
    /\ \E h \in hist : h.i = 19 /\ h.skipGroup = 0 /\ h.depth = 0

----------------------------------------------------------------------------
(* The conversion calls of js/doc-engine.js and the progress they report.   *)
(* A call runs synchronously up to an await; each action below is one such  *)
(* stretch, so the values it appends to reported are passed to onProgress   *)
(* in that order with nothing in between.  at names the await the call is   *)
(* suspended at ("text", "arrayBuffer", "getJsPDF", "blob"), the stretch it *)
(* is in ("parseRtf", "loop", "render"), or its end ("returned",            *)
(* "rejected").                                                             *)

MaxParts == 3

(* parseRtf has not been called. *)
ScanIdle ==
    /\ rtfString = <<>>
    /\ text = <<>>
    /\ depth = 0
    /\ skipGroup = 0
    /\ i = 0
    /\ pc = "none"
    /\ result = <<>>
    /\ pass = 1
    /\ hist = {}
    /\ other = NoCall

(* The files handed to rtfToText and rtfToPdf. *)
RtfFiles == PairInputs

(* orderedFiles of an EPUB: for each path, whether the archive holds it. *)
Flags(n) == [1..n -> BOOLEAN]
OrderedFiles == UNION { Flags(n) : n \in 0..MaxParts }

(* paragraphs of a DOCX. *)
Paragraphs == { [k \in 1..n |-> TRUE] : n \in 0..MaxParts }

(* Math.round(num / den), num >= 0 and den > 0: the nearest integer, a half *)
(* rounded up.                                                              *)
Round(num, den) == (2 * num + den) \div (2 * den)

Report(values) == reported' = reported \o values

(* rtfToText up to await file.text(). *)
rtfToText ==
    /\ fn = "none"
    /\ fn' = "rtfToText"
    /\ Report(<<10>>)
    /\ at' = "text"
    /\ UNCHANGED <<items, item, scanVars, docRest>>

(* rtfToPdf up to await file.text(). *)
rtfToPdf ==
    /\ fn = "none"
    /\ fn' = "rtfToPdf"
    /\ Report(<<10>>)
    /\ at' = "text"
    /\ UNCHANGED <<items, item, scanVars, docRest>>

(* Variant: the text is read and 100 is reported before parseRtf runs. *)
TextReadDone ==
    /\ at = "text"
    /\ \E s \in RtfFiles : rtfString' = s
    /\ pc' = "scan"
    /\ Report(<<100>>)
    /\ at' = "parseRtf"
    /\ UNCHANGED <<fn, items, item, text, depth, skipGroup, i, result, pass, hist, other, docRest>>

(* file.text() resolves: the progress after reading, then parseRtf is       *)
(* called on the string.                                                    *)
TextRead ==
    /\ at = "text"
    /\ \E s \in RtfFiles : rtfString' = s
    /\ pc' = "scan"
    /\ Report(IF fn = "rtfToText" THEN <<30>> ELSE <<20>>)
    /\ at' = "parseRtf"
    /\ UNCHANGED <<fn, items, item, text, depth, skipGroup, i, result, pass, hist, other, docRest>>

(* file.text() or file.arrayBuffer() rejects, or unzipSync throws. *)
ReadFails ==
    /\ at \in {"text", "arrayBuffer"}
    /\ at' = "rejected"
    /\ UNCHANGED <<fn, reported, items, item, scanVars, docRest>>

(* parseRtf has returned: rtfToText reports 100 and returns, rtfToPdf       *)
(* reports 40 and calls textToPdfBlob, which awaits getJsPDF().             *)
Extracted ==
    /\ at = "parseRtf" /\ pc = "done"
    /\ IF fn = "rtfToText"
         THEN Report(<<100>>) /\ at' = "returned"
         ELSE Report(<<40>>) /\ at' = "getJsPDF"
    /\ UNCHANGED <<fn, items, item, scanVars, docRest>>

(* epubToPdf calls extractEpubText, which runs up to await arrayBuffer(). *)
epubToPdf ==
    /\ fn = "none"
    /\ fn' = "epubToPdf"
    /\ Report(<<10>>)
    /\ at' = "arrayBuffer"
    /\ UNCHANGED <<items, item, scanVars, docRest>>

(* docxToPdf calls extractDocxText, which runs up to await arrayBuffer(). *)
docxToPdf ==
    /\ fn = "none"
    /\ fn' = "docxToPdf"
    /\ Report(<<10>>)
    /\ at' = "arrayBuffer"
    /\ UNCHANGED <<items, item, scanVars, docRest>>

(* The EPUB is unzipped (20), its spine is read (30) and the loop over the  *)
(* content files starts.                                                    *)
EpubUnzipped ==
    /\ fn = "epubToPdf" /\ at = "arrayBuffer"
    /\ items' \in OrderedFiles
    /\ item' = 0
    /\ Report(<<20, 30>>)
    /\ at' = "loop"
    /\ UNCHANGED <<fn, scanVars, docRest>>

(* The DOCX is unzipped (30) but holds no word/document.xml. *)
DocxInvalid ==
    /\ fn = "docxToPdf" /\ at = "arrayBuffer"
    /\ Report(<<30>>)
    /\ at' = "rejected"
    /\ UNCHANGED <<fn, items, item, scanVars, docRest>>

(* The DOCX is unzipped (30), document.xml is decoded (40) and the loop     *)
(* over the paragraphs starts.                                              *)
DocxUnzipped ==
    /\ fn = "docxToPdf" /\ at = "arrayBuffer"
    /\ items' \in Paragraphs
    /\ item' = 0
    /\ Report(<<30, 40>>)
    /\ at' = "loop"
    /\ UNCHANGED <<fn, scanVars, docRest>>

(* One iteration of the loop of extractEpubText: a path without data is    *)
(* passed over by continue, before the progress call.                       *)
Chapter ==
    /\ fn = "epubToPdf" /\ at = "loop" /\ item < Len(items)
    /\ IF items[item + 1]
         THEN Report(<<30 + Round(item * 40, Len(items))>>)
         ELSE UNCHANGED reported
    /\ item' = item + 1
    /\ UNCHANGED <<fn, at, items, scanVars, docRest>>

(* One iteration of the loop of extractDocxText. *)
Paragraph ==
    /\ fn = "docxToPdf" /\ at = "loop" /\ item < Len(items)
    /\ Report(<<40 + Round(item * 30, Len(items))>>)
    /\ item' = item + 1
    /\ UNCHANGED <<fn, at, items, scanVars, docRest>>

(* The extraction returns; epubToPdf / docxToPdf report 50 and call         *)
(* textToPdfBlob, which awaits getJsPDF().                                  *)
PartsExtracted ==
    /\ at = "loop" /\ ~(item < Len(items))
    /\ Report(<<50>>)
    /\ at' = "getJsPDF"
    /\ UNCHANGED <<fn, items, item, scanVars, docRest>>

(* textToPdfBlob: getJsPDF() has resolved. *)
PdfReady ==
    /\ at = "getJsPDF"
    /\ Report(<<60>>)
    /\ at' = "render"
    /\ UNCHANGED <<fn, items, item, scanVars, docRest>>

(* textToPdfBlob: getJsPDF() has thrown. *)
PdfFails ==
    /\ at = "getJsPDF"
    /\ at' = "rejected"
    /\ UNCHANGED <<fn, reported, items, item, scanVars, docRest>>

(* textToPdfBlob: the pages are laid out and the blob is returned. *)
Rendered ==
    /\ at = "render"
    /\ Report(<<90>>)
    /\ at' = "blob"
    /\ UNCHANGED <<fn, items, item, scanVars, docRest>>

(* await textToPdfBlob(...) resumes in rtfToPdf / epubToPdf / docxToPdf. *)
Converted ==
    /\ at = "blob"
    /\ Report(<<100>>)
    /\ at' = "returned"
    /\ UNCHANGED <<fn, items, item, scanVars, docRest>>

InitDoc == ScanIdle /\ Idle

NextDoc ==
    \/ rtfToText
    \/ rtfToPdf
    \/ epubToPdf
    \/ docxToPdf
    \/ TextRead
    \/ ReadFails
    \/ Next
    \/ Extracted
    \/ EpubUnzipped
    \/ DocxInvalid
    \/ DocxUnzipped
    \/ Chapter
    \/ Paragraph
    \/ PartsExtracted
    \/ PdfReady
    \/ PdfFails
    \/ Rendered
    \/ Converted

SpecDoc == InitDoc /\ [][NextDoc]_vars

(* The values x[1] <= x[2] <= ... *)
NonDecreasing(x) == \A a, b \in 1..Len(x) : a <= b => x[a] <= x[b]

RtfToTextValues == <<10, 30, 100>>
RtfToPdfValues == <<10, 20, 40, 60, 90, 100>>

(***************************************************************************)
(* C31: the RTF pipelines report progress in order -- during one rtfToText *)
(* call the callback receives 10, 30, 100 in that order and during one     *)
(* rtfToPdf call 10, 20, 40, 60, 90, 100 (all of them once the call has    *)
(* returned, a prefix of them before and when it is rejected); the values  *)
(* never decrease, lie in 0..100, and 100 is the last one and is reported  *)
(* only after parseRtf has returned.                                       *)
(***************************************************************************)
C31_RtfProgress ==
    fn \in {"rtfToText", "rtfToPdf"} =>
        LET want == IF fn = "rtfToText" THEN RtfToTextValues ELSE RtfToPdfValues
        IN  /\ IsPrefix(reported, want)
            /\ at = "returned" => reported = want
            /\ NonDecreasing(reported)
            /\ \A k \in 1..Len(reported) :
                   /\ reported[k] \in 0..100
                   /\ reported[k] = 100 => k = Len(reported) /\ pc = "done"

(* rtfToPdf has returned for {\fonttbl{\f0 Arial;}}Hello: the text is      *)
(* Hello and all six values were reported.                                 *)
C31_Witness ==
    /\ fn = "rtfToPdf" /\ at = "returned"
    /\ reported = RtfToPdfValues
    /\ result = <<72, 101, 108, 108, 111>>

(***************************************************************************)
(* C32: progress never goes backwards in the EPUB and DOCX to PDF          *)
(* pipelines -- during one epubToPdf or docxToPdf call, for every number   *)
(* of chapters or paragraphs, the values passed to the progress callback   *)
(* never decrease, and the last one of a call that has returned is 100.    *)
(***************************************************************************)
C32_ProgressMonotone ==
    fn \in {"epubToPdf", "docxToPdf"} =>
        /\ NonDecreasing(reported)
        /\ at = "returned" => reported[Len(reported)] = 100

----------------------------------------------------------------------------
(* The batch queue of js/ui.js.  JavaScript runs a handler to its end or to *)
(* its next await before any other handler runs, so each action below is    *)
(* one such stretch: a drop (addFile), a click on Remove or Clear All, the  *)
(* settling of one processFile call, a timer callback.                      *)

CONCURRENCY == 2

InQueue(e) == \E k \in 1..Len(fileQueue) : fileQueue[k] = e

(* The positions of the queued entries of the list q under the statuses st. *)
QueuedAt(q, st) == { k \in 1..Len(q) : st[q[k]] = "queued" }

(* fileQueue.find(f => f.status === 'queued') *)
FindQueued(q, st) ==
    q[CHOOSE k \in QueuedAt(q, st) : \A j \in QueuedAt(q, st) : k <= j]

(* Variant: the loop takes the next queued entry whatever activeCount is. *)
processQueueUncapped(q, st, ac, pend, tm, tr) ==
    IF QueuedAt(q, st) # {}
      THEN LET next == FindQueued(q, st)
           IN  [status |-> [st EXCEPT ![next] = "processing"],
                activeCount |-> ac + 1,
                pending |-> pend \cup {next},
                timers |-> tm,
                trail |-> [tr EXCEPT ![next] = Append(@, "processing")]]
      ELSE [status |-> st, activeCount |-> ac, pending |-> pend,
            timers |-> tm, trail |-> tr]

(* processQueue from the head of its while loop, up to the await of        *)
(* processFile or to its end: with a free slot and a queued entry it takes *)
(* the entry and is suspended; otherwise it leaves the loop and sets a     *)
(* timer when an entry is queued.                                          *)
processQueue(q, st, ac, pend, tm, tr) ==
    IF ac < CONCURRENCY /\ QueuedAt(q, st) # {}
      THEN LET next == FindQueued(q, st)
           IN  [status |-> [st EXCEPT ![next] = "processing"],
                activeCount |-> ac + 1,
                pending |-> pend \cup {next},
                timers |-> tm,
                trail |-> [tr EXCEPT ![next] = Append(@, "processing")]]
      ELSE [status |-> st, activeCount |-> ac, pending |-> pend,
            timers |-> IF QueuedAt(q, st) # {} THEN tm + 1 ELSE tm,
            trail |-> tr]

(* The state processQueue leaves, run on the list q. *)
Resume(q, r) ==
    /\ fileQueue' = q
    /\ status' = r.status
    /\ activeCount' = r.activeCount
    /\ pending' = r.pending
    /\ timers' = r.timers
    /\ trail' = r.trail

(* A file is dropped: a new entry is pushed and processQueue is called. *)
addFile ==
    /\ \E e \in Entries :
        /\ status[e] = "none"
        /\ \A d \in Entries : d < e => status[d] # "none"
        /\ Resume(Append(fileQueue, e),
                  processQueue(Append(fileQueue, e), [status EXCEPT ![e] = "queued"],
                               activeCount, pending, timers,
                               [trail EXCEPT ![e] = <<"queued">>]))
    /\ UNCHANGED queueRest

(* Variant: processFile settles and the counter is left as it is. *)
SettleKeep(e, outcome) ==
    /\ e \in pending
    /\ Resume(fileQueue,
              processQueue(fileQueue, [status EXCEPT ![e] = outcome],
                           activeCount, pending \ {e}, timers,
                           [trail EXCEPT ![e] = Append(@, outcome)]))
    /\ UNCHANGED queueRest

(* await processFile(next) settles: the entry is marked, the counter is    *)
(* decremented and the while loop goes round.                              *)
Settle(e, outcome) ==
    /\ e \in pending
    /\ Resume(fileQueue,
              processQueue(fileQueue, [status EXCEPT ![e] = outcome],
                           activeCount - 1, pending \ {e}, timers,
                           [trail EXCEPT ![e] = Append(@, outcome)]))
    /\ UNCHANGED queueRest

(* processFile resolves. *)
Resolved == \E e \in Entries : Settle(e, "done")

(* processFile rejects. *)
Rejected == \E e \in Entries : Settle(e, "error")

(* A timer set by processQueue fires: processQueue runs again. *)
TimerFires ==
    /\ timers > 0
    /\ Resume(fileQueue,
              processQueue(fileQueue, status, activeCount, pending, timers - 1, trail))
    /\ UNCHANGED queueRest

(* A click on the Remove button of an entry; the button exists while the   *)
(* entry is in the list and is done or failed.                             *)
removeFile ==
    /\ \E k \in 1..Len(fileQueue) :
        /\ status[fileQueue[k]] \in {"done", "error"}
        /\ fileQueue' = SubSeq(fileQueue, 1, k - 1) \o SubSeq(fileQueue, k + 1, Len(fileQueue))
    /\ UNCHANGED <<status, activeCount, pending, timers, trail, queueRest>>

(* A click on Clear All; the button is shown while the list is not empty. *)
handleClearAll ==
    /\ Len(fileQueue) > 0
    /\ fileQueue' = <<>>
    /\ UNCHANGED <<status, activeCount, pending, timers, trail, queueRest>>

InitQueue == ScanIdle /\ Idle

NextQueue ==
    \/ addFile
    \/ Resolved
    \/ Rejected
    \/ TimerFires
    \/ removeFile
    \/ handleClearAll

SpecQueue == InitQueue /\ [][NextQueue]_vars

(* Every processFile call settles and every timer fires. *)
SpecQueueFair ==
    /\ SpecQueue
    /\ WF_vars(TimerFires)
    /\ \A e \in Entries : WF_vars(Settle(e, "done") \/ Settle(e, "error"))

(***************************************************************************)
(* C33: batch queue concurrency bound -- for every sequence of drops,      *)
(* removals and Clear All and every order of completions, activeCount is   *)
(* in 0..2, at most 2 entries have the status 'processing', and an entry   *)
(* goes queued -> processing -> done or error, each at most once.          *)
(***************************************************************************)
C33_ConcurrencyBound ==
    /\ activeCount \in 0..CONCURRENCY
    /\ Cardinality({ e \in Entries : status[e] = "processing" }) <= CONCURRENCY
    /\ \A e \in Entries :
        \/ IsPrefix(trail[e], <<"queued", "processing", "done">>)
        \/ IsPrefix(trail[e], <<"queued", "processing", "error">>)

(* Three files were dropped: two are being converted, the third waits for  *)
(* a slot with a timer set.                                                *)
C33_Witness ==
    /\ fileQueue = <<1, 2, 3>>
    /\ status = [e \in Entries |-> IF e <= 2 THEN "processing"
                                  ELSE IF e = 3 THEN "queued" ELSE "none"]
    /\ activeCount = 2
    /\ timers = 1

(***************************************************************************)
(* C34: batch queue liveness -- when every processFile call settles and    *)
(* the timers fire, every entry added to the queue and not taken out of it *)
(* by Clear All reaches 'done' or 'error', and activeCount returns to 0    *)
(* once no entry of the list is queued or processing.                      *)
(***************************************************************************)
C34_QueueDrains ==
    /\ \A e \in Entries :
        (status[e] # "none") ~> (status[e] \in {"done", "error"} \/ ~InQueue(e))
    /\ (\A e \in Entries : InQueue(e) => status[e] \in {"done", "error"})
            ~> (activeCount = 0)

(* Three files were dropped while two slots were busy and all three were   *)
(* converted: the third one waited, and the counter is back at 0.          *)
C34_Witness ==
    /\ fileQueue = <<1, 2, 3>>
    /\ \A e \in 1..3 : trail[e] = <<"queued", "processing", "done">>
    /\ activeCount = 0
    /\ pending = {}

----------------------------------------------------------------------------
(* The metadata page of js/exif-ui.js.  Each action is one handler run up   *)
(* to its await, or the stretch after an await up to the next one.  The     *)
(* engine calls (isJpeg, readMetadata, editExifFields, stripGpsOnly,        *)
(* stripAllMetadata) and validateFile are imported: a call is known by the  *)
(* file it was given, and its result by that file.                          *)

MaxReads == 2
MaxOps == 2

(* The files the user drops: two valid images, one of them a JPEG, and one  *)
(* that validateFile refuses.                                               *)
Files == {"a.jpg", "b.png", "huge.jpg"}
IsJpegOf(f) == f \in {"a.jpg", "huge.jpg"}
Valid(f) == f # "huge.jpg"

(* The value readMetadata(f) resolves to. *)
MetadataOf(f) == [of |-> f]

RemoveAt(q, k) == SubSeq(q, 1, k - 1) \o SubSeq(q, k + 1, Len(q))

(* resetState but for currentFile, which the caller assigns. *)
Reset ==
    /\ currentMetadata' = NoMetadata
    /\ isJpegFile' = FALSE
    /\ processing' = FALSE
    /\ exifFile' = NoFile
    /\ download' = NoResult
    /\ panel' = "empty"
    /\ buttons' = {}

(* A click on Clear All. *)
resetState ==
    /\ "clear" \in buttons
    /\ currentFile' = NoFile
    /\ Reset
    /\ UNCHANGED <<reads, ops, disabled, exifRest>>

(* A file is dropped or chosen and validateFile accepts it: handleFile up  *)
(* to await isJpeg(file).                                                   *)
handleFile ==
    /\ ~processing
    /\ Len(reads) < MaxReads
    /\ \E f \in Files :
        /\ Valid(f)
        /\ currentFile' = f
        /\ reads' = Append(reads, [file |-> f, at |-> "isJpeg"])
    /\ Reset
    /\ UNCHANGED <<ops, disabled, exifRest>>

(* A file is dropped and validateFile throws: the file item shows the      *)
(* error and handleFile returns.                                            *)
handleFileInvalid ==
    /\ ~processing
    /\ \E f \in Files :
        /\ ~Valid(f)
        /\ currentFile' = f
        /\ exifFile' = f
    /\ currentMetadata' = NoMetadata
    /\ isJpegFile' = FALSE
    /\ processing' = FALSE
    /\ download' = NoResult
    /\ panel' = "empty"
    /\ buttons' = {}
    /\ UNCHANGED <<reads, ops, disabled, exifRest>>

(* isJpeg(file) resolves: handleFile from line 82 to await readMetadata. *)
JpegKnown ==
    /\ \E k \in 1..Len(reads) :
        /\ reads[k].at = "isJpeg"
        /\ isJpegFile' = IsJpegOf(reads[k].file)
        /\ exifFile' = reads[k].file
        /\ reads' = [reads EXCEPT ![k].at = "readMetadata"]
    /\ download' = NoResult
    /\ UNCHANGED <<currentFile, currentMetadata, processing, ops, panel, buttons,
                   disabled, exifRest>>

(* readMetadata(file) resolves: the table is rendered and the buttons are  *)
(* shown, both according to isJpegFile.                                     *)
MetadataRead ==
    /\ \E k \in 1..Len(reads) :
        /\ reads[k].at = "readMetadata"
        /\ currentMetadata' = MetadataOf(reads[k].file)
        /\ reads' = RemoveAt(reads, k)
    /\ panel' = IF isJpegFile THEN "editable" ELSE "readonly"
    /\ buttons' = IF isJpegFile THEN {"save", "stripGps", "stripAll", "clear"}
                                ELSE {"stripAll", "clear"}
    /\ UNCHANGED <<currentFile, isJpegFile, processing, ops, exifFile, disabled,
                   download, exifRest>>

(* isJpeg(file) or readMetadata(file) rejects. *)
ReadRejected ==
    /\ \E k \in 1..Len(reads) : reads' = RemoveAt(reads, k)
    /\ UNCHANGED <<currentFile, currentMetadata, isJpegFile, processing, ops,
                   exifFile, panel, buttons, disabled, download, exifRest>>

(* A handler passes its guard: the flag is set, its button is disabled and *)
(* the engine call is made on currentFile.                                  *)
Begin(kind) ==
    /\ Len(ops) < MaxOps
    /\ processing' = TRUE
    /\ disabled' = disabled \cup {kind}
    /\ ops' = Append(ops, [kind |-> kind, file |-> currentFile])
    /\ UNCHANGED <<currentFile, currentMetadata, isJpegFile, reads, exifFile,
                   panel, buttons, download, exifRest>>

Clickable(b) == b \in buttons /\ b \notin disabled

(* A click on Save Changes with at least one changed input. *)
handleSave ==
    /\ Clickable("save") /\ panel = "editable"
    /\ currentFile # NoFile /\ isJpegFile /\ ~processing
    /\ Begin("save")

(* A click on Strip GPS Only, or on a Remove GPS button of the table. *)
handleStripGps ==
    /\ Clickable("stripGps") \/ panel = "editable"
    /\ currentFile # NoFile /\ isJpegFile /\ ~processing
    /\ Begin("stripGps")

(* A click on Strip All Metadata. *)
handleStripAll ==
    /\ Clickable("stripAll")
    /\ currentFile # NoFile /\ ~processing
    /\ Begin("stripAll")

(* The engine call of a handler resolves: with currentFile null the        *)
(* access to currentFile.name throws and the catch reports it; otherwise   *)
(* showResult fills the #exif-file element when there is one.  The button  *)
(* is enabled and the flag is cleared.                                      *)
OperationDone ==
    /\ \E k \in 1..Len(ops) :
        /\ download' = IF currentFile # NoFile /\ exifFile # NoFile
                         THEN [blob |-> ops[k].file, file |-> currentFile]
                         ELSE download
        /\ disabled' = disabled \ {ops[k].kind}
        /\ ops' = RemoveAt(ops, k)
    /\ processing' = FALSE
    /\ UNCHANGED <<currentFile, currentMetadata, isJpegFile, reads, exifFile,
                   panel, buttons, exifRest>>

(* The engine call of a handler rejects. *)
OperationFails ==
    /\ \E k \in 1..Len(ops) :
        /\ disabled' = disabled \ {ops[k].kind}
        /\ ops' = RemoveAt(ops, k)
    /\ processing' = FALSE
    /\ UNCHANGED <<currentFile, currentMetadata, isJpegFile, reads, exifFile,
                   panel, buttons, download, exifRest>>

InitExif == ScanIdle /\ Idle

NextExif ==
    \/ handleFile
    \/ handleFileInvalid
    \/ JpegKnown
    \/ MetadataRead
    \/ ReadRejected
    \/ handleSave
    \/ handleStripGps
    \/ handleStripAll
    \/ resetState
    \/ OperationDone
    \/ OperationFails

SpecExif == InitExif /\ [][NextExif]_vars

(***************************************************************************)
(* C35: metadata operations are mutually exclusive -- under every          *)
(* interleaving of Save, Strip GPS, Strip All, Clear All and drops with    *)
(* the completions of pending operations, at most one save/strip operation *)
(* is in flight, and a result shown by showResult was computed from the    *)
(* file that is currentFile at that moment.                                *)
(***************************************************************************)
C35_OneOperation ==
    /\ Len(ops) <= 1
    /\ download.blob = download.file

(***************************************************************************)
(* C36: displayed metadata belongs to the loaded file -- once all pending  *)
(* isJpeg/readMetadata calls of the dropped files have completed, whatever *)
(* their order, the metadata that is held and isJpegFile are those of      *)
(* currentFile, the file dropped last.                                     *)
(***************************************************************************)
C36_MetadataOfCurrentFile ==
    (reads = <<>> /\ currentMetadata # NoMetadata) =>
        /\ currentMetadata = MetadataOf(currentFile)
        /\ isJpegFile = IsJpegOf(currentFile)

----------------------------------------------------------------------------
(* The HEIC loader.  unnamed/part_001 loads the decoder from the CDN and   *)
(* falls back to the local copy; js/heic-worker.js loads the local copy    *)
(* only.  build tells which one runs.  A promise reaction runs in the      *)
(* microtask checkpoint of the task that settled the promise, so a load    *)
(* event of a script and the handlers chained on it are one action.        *)

(* The promise of the script that is loading, 0 when none is. *)
Inflight ==
    IF \E k \in 1..Len(scripts) : scripts[k].state = "loading"
      THEN scripts[CHOOSE k \in 1..Len(scripts) : scripts[k].state = "loading"].promise
      ELSE 0

(* A load has succeeded: a promise of loadHeicTo was resolved. *)
Succeeded == \E n \in Promises : promises[n] = "resolved"

(* The call of loadHeicTo is recorded: the promise it returned (0 for      *)
(* Promise.resolve(heicToFn)), whether it started a load, and what was     *)
(* going on when it was made.                                              *)
Called(p, started) ==
    heicCalls' = Append(heicCalls, [promise |-> p, load |-> started,
                                    inflight |-> Inflight, succeeded |-> Succeeded])

(* The promise a call creates: the first number not in use. *)
NewPromise ==
    CHOOSE n \in Promises :
        promises[n] = "none" /\ \A m \in Promises : m < n => promises[m] # "none"

FirstSource == IF build = "cdn" THEN "cdn" ELSE "local"

(* Variant: every call starts a load of its own. *)
loadHeicToAlways ==
    /\ Len(heicCalls) < MaxCalls
    /\ loadPromise' = NewPromise
    /\ promises' = [promises EXCEPT ![NewPromise] = "pending"]
    /\ scripts' = Append(scripts, [src |-> FirstSource, state |-> "loading",
                                   promise |-> NewPromise])
    /\ Called(NewPromise, TRUE)
    /\ UNCHANGED <<build, heicToFn, HeicTo, heicRest>>

(* loadHeicTo() *)
loadHeicTo ==
    /\ Len(heicCalls) < MaxCalls
    /\ IF heicToFn = "HeicTo"
         THEN /\ Called(0, FALSE)
              /\ UNCHANGED <<loadPromise, promises, scripts>>
         ELSE IF loadPromise # 0
           THEN /\ Called(loadPromise, FALSE)
                /\ UNCHANGED <<loadPromise, promises, scripts>>
           ELSE /\ loadPromise' = NewPromise
                /\ promises' = [promises EXCEPT ![NewPromise] = "pending"]
                /\ scripts' = Append(scripts, [src |-> FirstSource, state |-> "loading",
                                               promise |-> NewPromise])
                /\ Called(NewPromise, TRUE)
    /\ UNCHANGED <<build, heicToFn, HeicTo, heicRest>>

(* A script has loaded and has defined window.HeicTo: heicToFn is set and  *)
(* the promise is resolved with it.                                        *)
ScriptLoaded ==
    /\ \E k \in 1..Len(scripts) :
        /\ scripts[k].state = "loading"
        /\ scripts' = [scripts EXCEPT ![k].state = "loaded"]
        /\ promises' = [promises EXCEPT ![scripts[k].promise] = "resolved"]
    /\ HeicTo' = TRUE
    /\ heicToFn' = "HeicTo"
    /\ UNCHANGED <<build, loadPromise, heicCalls, heicRest>>

(* A script has loaded without defining window.HeicTo: part_001 throws,    *)
(* its last catch resets loadPromise and the promise is rejected;          *)
(* heic-worker.js resolves the promise with undefined.                     *)
ScriptLoadedEmpty ==
    /\ ~HeicTo
    /\ \E k \in 1..Len(scripts) :
        /\ scripts[k].state = "loading"
        /\ scripts' = [scripts EXCEPT ![k].state = "empty"]
        /\ promises' = [promises EXCEPT ![scripts[k].promise] =
                            IF build = "cdn" THEN "rejected" ELSE "resolved"]
    /\ heicToFn' = "undefined"
    /\ loadPromise' = IF build = "cdn" THEN 0 ELSE loadPromise
    /\ UNCHANGED <<build, HeicTo, heicCalls, heicRest>>

(* part_001: the CDN script fails and the first catch requests the local   *)
(* copy.                                                                   *)
CdnFails ==
    /\ \E k \in 1..Len(scripts) :
        /\ scripts[k].state = "loading" /\ scripts[k].src = "cdn"
        /\ scripts' = Append([scripts EXCEPT ![k].state = "failed"],
                             [src |-> "local", state |-> "loading",
                              promise |-> scripts[k].promise])
    /\ UNCHANGED <<build, heicToFn, loadPromise, promises, HeicTo, heicCalls, heicRest>>

(* Variant: the local copy fails and loadPromise keeps the rejected        *)
(* promise.                                                                *)
LocalFailsKeep ==
    /\ \E k \in 1..Len(scripts) :
        /\ scripts[k].state = "loading" /\ scripts[k].src = "local"
        /\ scripts' = [scripts EXCEPT ![k].state = "failed"]
        /\ promises' = [promises EXCEPT ![scripts[k].promise] = "rejected"]
    /\ UNCHANGED <<build, heicToFn, loadPromise, HeicTo, heicCalls, heicRest>>

(* The local copy fails: the promise is rejected; part_001 resets          *)
(* loadPromise in its last catch, heic-worker.js leaves it.                *)
LocalFails ==
    /\ \E k \in 1..Len(scripts) :
        /\ scripts[k].state = "loading" /\ scripts[k].src = "local"
        /\ scripts' = [scripts EXCEPT ![k].state = "failed"]
        /\ promises' = [promises EXCEPT ![scripts[k].promise] = "rejected"]
    /\ loadPromise' = IF build = "cdn" THEN 0 ELSE loadPromise
    /\ UNCHANGED <<build, heicToFn, HeicTo, heicCalls, heicRest>>

InitHeic ==
    /\ ScanIdle /\ DocIdle /\ QueueIdle /\ ExifIdle /\ PdfIdle
    /\ HeicStart("cdn") \/ HeicStart("local")

NextHeic ==
    \/ loadHeicTo
    \/ ScriptLoaded
    \/ ScriptLoadedEmpty
    \/ CdnFails
    \/ LocalFails

SpecHeic == InitHeic /\ [][NextHeic]_vars

(* The calls that started a load, and the scripts that begin an attempt. *)
LoadingCalls == { c \in 1..Len(heicCalls) : heicCalls[c].load }
FirstScripts == { k \in 1..Len(scripts) : scripts[k].src = FirstSource }

(***************************************************************************)
(* C37: the HEIC decoder is loaded lazily and single-flight -- no script   *)
(* is requested before the first loadHeicTo call; a call made while a load *)
(* is in progress returns the promise of that load and starts no load;     *)
(* once a load has succeeded every later call starts no load and returns a *)
(* promise resolved with the decoder; so there is one attempt per call     *)
(* that started one, and never two scripts loading at a time.              *)
(***************************************************************************)
C37_SingleFlight ==
    /\ heicCalls = <<>> => scripts = <<>>
    /\ Cardinality({ k \in 1..Len(scripts) : scripts[k].state = "loading" }) <= 1
    /\ Cardinality(FirstScripts) = Cardinality(LoadingCalls)
    /\ \A c \in 1..Len(heicCalls) :
        /\ heicCalls[c].inflight # 0 =>
               ~heicCalls[c].load /\ heicCalls[c].promise = heicCalls[c].inflight
        /\ heicCalls[c].succeeded =>
               /\ ~heicCalls[c].load
               /\ heicCalls[c].promise # 0 => promises[heicCalls[c].promise] = "resolved"
               /\ heicCalls[c].promise = 0 => heicToFn = "HeicTo"

(* part_001: the first call started the CDN load, the second one was made  *)
(* while the fallback was loading and shares the promise, the third one    *)
(* after the decoder had loaded.                                           *)
C37_Witness ==
    /\ build = "cdn"
    /\ scripts = <<[src |-> "cdn", state |-> "failed", promise |-> 1],
                   [src |-> "local", state |-> "loaded", promise |-> 1]>>
    /\ heicCalls = <<[promise |-> 1, load |-> TRUE, inflight |-> 0, succeeded |-> FALSE],
                     [promise |-> 1, load |-> FALSE, inflight |-> 1, succeeded |-> FALSE],
                     [promise |-> 0, load |-> FALSE, inflight |-> 0, succeeded |-> TRUE]>>

(* The scripts requested for the promise n, in order. *)
ScriptsOf(n) == SelectSeq(scripts, LAMBDA s : s.promise = n)

(***************************************************************************)
(* C38: HEIC loader fallback and retry (part_001) -- the local copy is     *)
(* requested only after the CDN load of the same attempt has failed, never *)
(* before it or while it is loading; when both loads have failed, or a     *)
(* script has loaded without the decoder global, the returned promise is   *)
(* rejected and loadPromise is reset, and the next call of loadHeicTo      *)
(* starts a new attempt, which begins with the CDN again.                  *)
(***************************************************************************)
C38_FallbackAndRetry ==
    build = "cdn" =>
        /\ \A k \in 1..Len(scripts) :
            scripts[k].src = "local" =>
                /\ k > 1
                /\ scripts[k - 1] = [src |-> "cdn", state |-> "failed",
                                     promise |-> scripts[k].promise]
        /\ \A n \in Promises :
            LET mine == ScriptsOf(n)
                last == mine[Len(mine)]
            IN  /\ promises[n] # "none" => Len(mine) \in 1..2 /\ mine[1].src = "cdn"
                /\ promises[n] = "rejected" <=>
                       /\ promises[n] # "none"
                       /\ \/ last.src = "local" /\ last.state = "failed"
                          \/ last.state = "empty"
                /\ promises[n] = "rejected" => loadPromise # n
        /\ \A c \in 1..Len(heicCalls) :
            (heicCalls[c].inflight = 0 /\ ~heicCalls[c].succeeded) =>
                /\ heicCalls[c].load
                /\ \A m \in Promises : m < heicCalls[c].promise => promises[m] = "rejected"

(* Both loads of the first attempt failed and the next call has started a  *)
(* second attempt, with the CDN.                                           *)
C38_Witness ==
    /\ build = "cdn"
    /\ scripts = <<[src |-> "cdn", state |-> "failed", promise |-> 1],
                   [src |-> "local", state |-> "failed", promise |-> 1],
                   [src |-> "cdn", state |-> "loading", promise |-> 2]>>
    /\ promises[1] = "rejected"
    /\ loadPromise = 2
    /\ Len(heicCalls) = 2 /\ heicCalls[2].load

----------------------------------------------------------------------------
(* The jsPDF loader of js/doc-engine.js: getJsPDF, called by textToPdfBlob *)
(* of every PDF conversion.  A call that does not find jspdfLoaded set     *)
(* requests the script and is suspended until it has loaded.               *)

PdfLoading == \E k \in 1..Len(pdfScripts) : pdfScripts[k] = "loading"

(* The call of getJsPDF is recorded: whether it requested the script, and  *)
(* whether a script was loading or had loaded when it was made.            *)
PdfCalled(started) ==
    pdfCalls' = Append(pdfCalls, [load |-> started, inflight |-> PdfLoading,
                                  loaded |-> jspdf])

(* getJsPDF() up to its return or to await loadScript(JSPDF_CDN). *)
getJsPDF ==
    /\ Len(pdfCalls) < MaxCalls
    /\ IF jspdfLoaded = "jspdf"
         THEN PdfCalled(FALSE) /\ UNCHANGED pdfScripts
         ELSE PdfCalled(TRUE) /\ pdfScripts' = Append(pdfScripts, "loading")
    /\ UNCHANGED <<jspdfLoaded, jspdf, pdfRest>>

(* A script has loaded and window.jspdf is defined: the call that awaited  *)
(* it sets jspdfLoaded and returns it.                                     *)
PdfScriptLoaded ==
    /\ \E k \in 1..Len(pdfScripts) :
        /\ pdfScripts[k] = "loading"
        /\ pdfScripts' = [pdfScripts EXCEPT ![k] = "loaded"]
    /\ jspdf' = TRUE
    /\ jspdfLoaded' = "jspdf"
    /\ UNCHANGED <<pdfCalls, pdfRest>>

(* A script has loaded without defining window.jspdf: the call throws. *)
PdfScriptLoadedEmpty ==
    /\ ~jspdf
    /\ \E k \in 1..Len(pdfScripts) :
        /\ pdfScripts[k] = "loading"
        /\ pdfScripts' = [pdfScripts EXCEPT ![k] = "empty"]
    /\ jspdfLoaded' = "undefined"
    /\ UNCHANGED <<jspdf, pdfCalls, pdfRest>>

(* A script fails to load: the call that awaited it rejects. *)
PdfScriptFails ==
    /\ \E k \in 1..Len(pdfScripts) :
        /\ pdfScripts[k] = "loading"
        /\ pdfScripts' = [pdfScripts EXCEPT ![k] = "failed"]
    /\ UNCHANGED <<jspdfLoaded, jspdf, pdfCalls, pdfRest>>

InitPdf == ScanIdle /\ Idle

NextPdf ==
    \/ getJsPDF
    \/ PdfScriptLoaded
    \/ PdfScriptLoadedEmpty
    \/ PdfScriptFails

SpecPdf == InitPdf /\ [][NextPdf]_vars

(***************************************************************************)
(* C39: the PDF library is loaded at most once -- when getJsPDF is called  *)
(* again before the first load has completed no second script load is      *)
(* started (never two scripts loading at a time), and after a successful   *)
(* load no later call starts another.                                      *)
(***************************************************************************)
C39_LoadedOnce ==
    /\ Cardinality({ k \in 1..Len(pdfScripts) : pdfScripts[k] = "loading" }) <= 1
    /\ \A c \in 1..Len(pdfCalls) :
        (pdfCalls[c].inflight \/ pdfCalls[c].loaded) => ~pdfCalls[c].load

====
